---- MODULE Spec2Model ----
(***************************************************************************)
(* Model of src/lib/mortgageMath.js (src/unnamed/part_000): the four       *)
(* simulators computeBaselineMortgage, simulateExtraPaymentStrategy,       *)
(* simulateVelocityBanking, simulateInvestmentStrategy and the             *)
(* orchestrator simulateAllStrategies.                                     *)
(*                                                                         *)
(* JavaScript numbers are IEEE-754 binary64 values.  The claims about      *)
(* payoff months and exact equalities depend on the rounding of every      *)
(* operation, so numbers are modelled as binary64 values with              *)
(* round-to-nearest-even, built on natural numbers of arbitrary size.      *)
(***************************************************************************)
EXTENDS Integers, Sequences, FiniteSets, TLC

(***************************************************************************)
(* Natural numbers of arbitrary size: little-endian sequences of limbs in  *)
(* base 2^15, without leading (most significant) zero limbs.               *)
(***************************************************************************)
LimbBits == 15

Base == 2^LimbBits

Max2(a, b) == IF a >= b THEN a ELSE b

Min2(a, b) == IF a <= b THEN a ELSE b

Limb(a, i) == IF i <= Len(a) THEN a[i] ELSE 0

\* a without its most significant zero limbs
RECURSIVE BNorm(_)
BNorm(a) ==
  IF a = <<>> THEN <<>>
  ELSE IF a[Len(a)] # 0 THEN a
  ELSE BNorm(SubSeq(a, 1, Len(a) - 1))

RECURSIVE BFromInt(_)
BFromInt(k) == IF k = 0 THEN <<>> ELSE <<k % Base>> \o BFromInt(k \div Base)

\* limbs i and up of a + b + c, c the carry into limb i
RECURSIVE BAddFrom(_, _, _, _)
BAddFrom(a, b, i, c) ==
  IF i > Len(a) /\ i > Len(b) THEN (IF c = 0 THEN <<>> ELSE <<c>>)
  ELSE <<(Limb(a, i) + Limb(b, i) + c) % Base>>
       \o BAddFrom(a, b, i + 1, (Limb(a, i) + Limb(b, i) + c) \div Base)

BAdd(a, b) == BAddFrom(a, b, 1, 0)

\* limbs i and up of a - b - c, c the borrow out of limb i - 1
RECURSIVE BSubFrom(_, _, _, _)
BSubFrom(a, b, i, c) ==
  IF i > Len(a) THEN <<>>
  ELSE <<(a[i] - Limb(b, i) - c + Base) % Base>>
       \o BSubFrom(a, b, i + 1, IF a[i] - Limb(b, i) - c < 0 THEN 1 ELSE 0)

\* a - b for a >= b
BSub(a, b) == BNorm(BSubFrom(a, b, 1, 0))

\* the comparison of limbs i and below of a and b
RECURSIVE BCmpFrom(_, _, _)
BCmpFrom(a, b, i) ==
  IF i = 0 THEN 0
  ELSE IF a[i] > b[i] THEN 1
  ELSE IF a[i] < b[i] THEN -1
  ELSE BCmpFrom(a, b, i - 1)

\* -1, 0 or 1 as a < b, a = b, a > b
BCmp(a, b) ==
  IF Len(a) > Len(b) THEN 1
  ELSE IF Len(a) < Len(b) THEN -1
  ELSE BCmpFrom(a, b, Len(a))

BShlLimbs(a, k) == IF a = <<>> THEN <<>> ELSE [i \in 1..k |-> 0] \o a

\* limbs i and up of a * k + c
RECURSIVE BMulSmallFrom(_, _, _, _)
BMulSmallFrom(a, k, i, c) ==
  IF i > Len(a) THEN (IF c = 0 THEN <<>> ELSE <<c>>)
  ELSE <<(a[i] * k + c) % Base>>
       \o BMulSmallFrom(a, k, i + 1, (a[i] * k + c) \div Base)

\* a * k for 0 <= k < Base
BMulSmall(a, k) == IF k = 0 THEN <<>> ELSE BMulSmallFrom(a, k, 1, 0)

\* a times limbs j and up of b
RECURSIVE BMulFrom(_, _, _)
BMulFrom(a, b, j) ==
  IF j > Len(b) THEN <<>>
  ELSE BAdd(BMulSmall(a, b[j]), BShlLimbs(BMulFrom(a, b, j + 1), 1))

BMul(a, b) == IF Len(a) >= Len(b) THEN BMulFrom(a, b, 1) ELSE BMulFrom(b, a, 1)

\* a * 2^n
BShl(a, n) == BShlLimbs(BMulSmall(a, 2^(n % LimbBits)), n \div LimbBits)

\* a \div 2^(LimbBits * d + r) for r < LimbBits
BShrBy(a, d, r) ==
  IF d >= Len(a) THEN <<>>
  ELSE BNorm([i \in 1..(Len(a) - d) |->
                (a[i + d] \div 2^r)
                + (Limb(a, i + d + 1) % 2^r) * 2^(LimbBits - r)] \o <<>>)

\* a \div 2^n
BShr(a, n) == BShrBy(a, n \div LimbBits, n % LimbBits)

RECURSIVE IntBitLen(_)
IntBitLen(k) == IF k = 0 THEN 0 ELSE 1 + IntBitLen(k \div 2)

BBitLen(a) ==
  IF a = <<>> THEN 0 ELSE LimbBits * (Len(a) - 1) + IntBitLen(a[Len(a)])

\* bit i of a
BBit(a, i) == (Limb(a, i \div LimbBits + 1) \div 2^(i % LimbBits)) % 2

\* a % 2^n = 0
BLowZero(a, n) ==
  /\ \A i \in 1..(n \div LimbBits) : Limb(a, i) = 0
  /\ Limb(a, n \div LimbBits + 1) % 2^(n % LimbBits) = 0

\* the limb d with b * d <= r < b * (d + 1), for r < b * Base and a divisor b
\* whose top limb is at least Base / 2: the quotient qh of the top limbs is
\* d, d + 1 or d + 2 (Knuth, TAOCP 4.3.1, Theorem B)
BDigitFrom(r, b, qh) ==
  IF BCmp(BMulSmall(b, qh), r) <= 0 THEN qh
  ELSE IF BCmp(BMulSmall(b, qh - 1), r) <= 0 THEN qh - 1
  ELSE qh - 2

BDigit(r, b) ==
  BDigitFrom(r, b,
    Min2(Base - 1,
         (Limb(r, Len(b) + 1) * Base + Limb(r, Len(b))) \div b[Len(b)]))

BDivPush(d, qr) == <<<<d>> \o qr[1], qr[2]>>

\* long division of limbs i and below of a, r the remainder so far:
\* <<quotient limbs, most significant first, remainder>>
RECURSIVE BDivModFrom(_, _, _, _)
BDivDigit(a, b, i, r2, d) ==
  BDivPush(d, BDivModFrom(a, b, i - 1, BSub(r2, BMulSmall(b, d))))

BDivStep(a, b, i, r2) == BDivDigit(a, b, i, r2, BDigit(r2, b))

BDivModFrom(a, b, i, r) ==
  IF i = 0 THEN <<<<>>, r>>
  ELSE BDivStep(a, b, i, BNorm(<<a[i]>> \o r))

BReverse(q) == [i \in 1..Len(q) |-> q[Len(q) + 1 - i]] \o <<>>

BDivModResult(qr, sh) == <<BNorm(BReverse(qr[1])), BShr(qr[2], sh)>>

\* the top Len(b) - 1 limbs of a are below b
BDivModScaled(a, b, sh) ==
  IF Len(a) < Len(b) THEN <<<<>>, BShr(a, sh)>>
  ELSE BDivModResult(
         BDivModFrom(a, b, Len(a) - Len(b) + 1,
                     BNorm(SubSeq(a, Len(a) - Len(b) + 2, Len(a)))), sh)

BDivModBy(a, b, sh) == BDivModScaled(BShl(a, sh), BShl(b, sh), sh)

\* <<a \div b, a % b>> for b # 0: both are scaled to give b a full top limb
BDivMod(a, b) == BDivModBy(a, b, LimbBits - IntBitLen(b[Len(b)]))

(***************************************************************************)
(* IEEE-754 binary64 values.  A finite number is [s, m, e], standing for   *)
(* (-1)^s * m * 2^e with m < 2^53, in canonical form: m >= 2^52 (normal),  *)
(* or e = MinExp (subnormal), or m = 0, s = 0, e = MinExp (zero; the only  *)
(* divisor that can be zero is 1 - Math.pow(1 + rM, -nM) of lines 39 and   *)
(* 265, which is +0, so -0 and +0 are not told apart).  The largest finite *)
(* number has e = 971.  Infinity and -Infinity have e = 1024, NaN has      *)
(* e = 1025 and an empty m.                                                *)
(***************************************************************************)
Precision == 53

MinExp == 0 - 1074

Zero == [s |-> 0, m |-> <<>>, e |-> MinExp]

Infinity == [s |-> 0, m |-> <<1>>, e |-> 1024]

NaN == [s |-> 0, m |-> <<>>, e |-> 1025]

\* 1 if a value between q and q + 1 rounds to q + 1: q is M \div 2^sh, and
\* the value is M / 2^sh, plus a fraction of 2^-sh if sticky = 1
FRoundUp(M, sh, sticky) ==
  IF /\ BBit(M, sh - 1) = 1
     /\ \/ sticky = 1
        \/ ~BLowZero(M, sh - 1)
        \/ BBit(M, sh) = 1
  THEN <<1>> ELSE <<>>

\* a rounded mantissa q may have reached 2^Precision, and the number 2^1024
FCarry(s, q, e1) ==
  IF q = <<>> THEN Zero
  ELSE IF BBitLen(q) > Precision
  THEN IF e1 >= 971 THEN [Infinity EXCEPT !.s = s]
       ELSE [s |-> s, m |-> BShr(q, 1), e |-> e1 + 1]
  ELSE [s |-> s, m |-> q, e |-> e1]

\* e1 > 971: the magnitude is at least 2^1024 and the result is infinite
FRoundTo(s, M, E, sticky, e1) ==
  IF e1 > 971 THEN [Infinity EXCEPT !.s = s]
  ELSE IF e1 <= E THEN [s |-> s, m |-> BShl(M, E - e1), e |-> e1]
  ELSE FCarry(s, BAdd(BShr(M, e1 - E), FRoundUp(M, e1 - E, sticky)), e1)

\* the binary64 nearest to (-1)^s * (M + f) * 2^E, ties to even, where
\* 0 <= f < 1 and f > 0 iff sticky = 1 (then M has at least Precision+2 bits)
FRound(s, M, E, sticky) ==
  IF M = <<>> THEN Zero
  ELSE FRoundTo(s, M, E, sticky, Max2(E + BBitLen(M) - Precision, MinExp))

\* an integer as a binary64 (exact below 2^53)
FInt(k) == IF k >= 0 THEN FRound(0, BFromInt(k), 0, 0)
           ELSE FRound(1, BFromInt(0 - k), 0, 0)

FNeg(a) == IF a.m = <<>> THEN a ELSE [a EXCEPT !.s = 1 - a.s]

\* -1, 0, 1 as |a| < |b|, |a| = |b|, |a| > |b| (canonical forms)
FCmpAbs(a, b) ==
  IF a.e > b.e THEN 1
  ELSE IF a.e < b.e THEN -1
  ELSE BCmp(a.m, b.m)

\* -1, 0, 1 as a < b, a = b, a > b, and 2 if one of them is NaN: every
\* comparison with NaN is false
FCmp(a, b) ==
  IF a.e = 1025 \/ b.e = 1025 THEN 2
  ELSE IF a.s # b.s THEN (IF a.s = 1 THEN -1 ELSE 1)
  ELSE IF a.s = 0 THEN FCmpAbs(a, b) ELSE FCmpAbs(b, a)

FLt(a, b) == FCmp(a, b) < 0

FLe(a, b) == FCmp(a, b) <= 0

FGt(a, b) == FCmp(a, b) = 1

\* Math.min: NaN if either number is NaN
FMin(a, b) ==
  IF a.e = 1025 \/ b.e = 1025 THEN NaN
  ELSE IF FLe(a, b) THEN a ELSE b

\* Infinity * 0 and NaN * b are NaN
FMul(a, b) ==
  IF a.e >= 1024 \/ b.e >= 1024
  THEN IF a.m = <<>> \/ b.m = <<>> THEN NaN
       ELSE [Infinity EXCEPT !.s = (a.s + b.s) % 2]
  ELSE IF a.m = <<>> \/ b.m = <<>> THEN Zero
  ELSE FRound((a.s + b.s) % 2, BMul(a.m, b.m), a.e + b.e, 0)

\* |hi| >= |lo|, both nonzero, exponents d apart; when they are far apart
\* lo only decides the direction of rounding
FAddApart(hi, lo, d) ==
  IF d > Precision + 3
  THEN IF hi.s = lo.s
       THEN FRound(hi.s, BShl(hi.m, 3), hi.e - 3, 1)
       ELSE FRound(hi.s, BSub(BShl(hi.m, 3), <<1>>), hi.e - 3, 1)
  ELSE IF hi.s = lo.s
       THEN FRound(hi.s, BAdd(BShl(hi.m, d), lo.m), lo.e, 0)
       ELSE FRound(hi.s, BSub(BShl(hi.m, d), lo.m), lo.e, 0)

FAddOrdered(hi, lo) == FAddApart(hi, lo, hi.e - lo.e)

\* NaN + b and Infinity + -Infinity are NaN
FAdd(a, b) ==
  IF a.e >= 1024 \/ b.e >= 1024
  THEN IF a.e = 1025 \/ b.e = 1025 \/ (a.e = b.e /\ a.s # b.s) THEN NaN
       ELSE IF a.e = 1024 THEN a ELSE b
  ELSE IF a.m = <<>> THEN b
  ELSE IF b.m = <<>> THEN a
  ELSE IF FCmpAbs(a, b) >= 0 THEN FAddOrdered(a, b) ELSE FAddOrdered(b, a)

FSub(a, b) == FAdd(a, FNeg(b))

\* the binary64 nearest to (-1)^s * (q + r / b) * 2^E for qr = <<q, r>>
FQuot(s, qr, E) == FRound(s, qr[1], E, IF qr[2] = <<>> THEN 0 ELSE 1)

\* a / b from the integer quotient of a.m * 2^k by b.m
FDivBy(a, b, k) ==
  FQuot((a.s + b.s) % 2, BDivMod(BShl(a.m, k), b.m), a.e - k - b.e)

\* a / b: NaN / b, 0 / 0 and Infinity / Infinity are NaN, a / Infinity is 0,
\* and a / 0 and Infinity / b are infinite
FDiv(a, b) ==
  IF a.e >= 1024 \/ b.e >= 1024 \/ b.m = <<>>
  THEN IF a.e = 1025 \/ b.e = 1025 \/ (a.e = 1024 /\ b.e = 1024)
          \/ (a.m = <<>> /\ b.m = <<>>)
       THEN NaN
       ELSE IF b.e = 1024 THEN Zero
       ELSE [Infinity EXCEPT !.s = (a.s + b.s) % 2]
  ELSE IF a.m = <<>> THEN Zero
  ELSE FDivBy(a, b, Max2(0, Precision + 2 + BBitLen(b.m) - BBitLen(a.m)))

One == FInt(1)

(***************************************************************************)
(* Math.pow.  ECMAScript leaves its result implementation-approximated.    *)
(* node runs V8, whose Math.pow is base::ieee754::pow: fdlibm's e_pow.c,   *)
(* a fixed sequence of binary64 operations on log2(x) and 2^(y*log2(x)),   *)
(* each kept as a high and a low part, with the last quotient taken as     *)
(* (z*t1) / ((t1-two) - (w+z*w)).  The result is deterministic and within  *)
(* an ulp of the power, not always the nearest binary64.  The operators    *)
(* follow that sequence for the call of line 39, x = 1 + rM >= 1 and       *)
(* y = -nM for an integer 0 <= nM < 2^31; parameters carry the names of    *)
(* its locals.                                                             *)
(***************************************************************************)

\* the upper 32 bits of |a|: the exponent field and 20 bits of the fraction
HighWord(a) ==
  (IF BBitLen(a.m) = Precision THEN (a.e + 1074) * 2^20 ELSE 0)
  + Limb(BShr(a.m, 32), 1) + Limb(BShr(a.m, 32), 2) * Base

\* the positive number with upper word h and a zero lower word
FromHighWord(h) ==
  IF h < 2^20
  THEN FRound(0, BShl(BFromInt(h), 32), MinExp, 0)
  ELSE [s |-> 0, m |-> BShl(BFromInt(2^20 + (h % 2^20)), 32),
        e |-> (h \div 2^20) - 1075]

\* SET_LOW_WORD(a, 0): a without the lower 32 bits of its fraction
LowWordZero(a) ==
  IF BShr(a.m, 32) = <<>> THEN Zero
  ELSE [a EXCEPT !.m = BShl(BShr(a.m, 32), 32)]

\* the constants of pow: bp, dp_h, dp_l by interval k + 1; L1..L6 of the
\* logarithm; P1..P5 of the exponential; lg2 = ln 2 and cp = 2/(3 ln 2)
\* with their high and low parts
PowK == [
  bp    |-> <<One, [s |-> 0, m |-> <<0, 0, 0, 192>>, e |-> 0 - 52]>>,
  dp_h  |-> <<Zero, [s |-> 0, m |-> <<0, 0, 24589, 149>>, e |-> 0 - 53]>>,
  dp_l  |-> <<Zero, [s |-> 0, m |-> <<20486, 1951, 30637, 231>>, e |-> 0 - 79]>>,
  L1    |-> [s |-> 0, m |-> <<13059, 26214, 19660, 153>>, e |-> 0 - 53],
  L2    |-> [s |-> 0, m |-> <<11263, 14047, 14043, 219>>, e |-> 0 - 54],
  L3    |-> [s |-> 0, m |-> <<9805, 8990, 21845, 170>>, e |-> 0 - 54],
  L4    |-> [s |-> 0, m |-> <<16641, 21050, 20866, 139>>, e |-> 0 - 54],
  L5    |-> [s |-> 0, m |-> <<23397, 10131, 6442, 236>>, e |-> 0 - 55],
  L6    |-> [s |-> 0, m |-> <<20207, 5258, 30881, 211>>, e |-> 0 - 55],
  P1    |-> [s |-> 0, m |-> <<21822, 10922, 21845, 170>>, e |-> 0 - 55],
  P2    |-> [s |-> 1, m |-> <<15763, 11645, 1456, 182>>, e |-> 0 - 61],
  P3    |-> [s |-> 0, m |-> <<24108, 24139, 22954, 138>>, e |-> 0 - 66],
  P4    |-> [s |-> 1, m |-> <<27633, 2980, 29959, 221>>, e |-> 0 - 72],
  P5    |-> [s |-> 0, m |-> <<9424, 25981, 23973, 177>>, e |-> 0 - 77],
  lg2   |-> [s |-> 0, m |-> <<14831, 32244, 14603, 177>>, e |-> 0 - 53],
  lg2_h |-> [s |-> 0, m |-> <<0, 0, 14604, 177>>, e |-> 0 - 53],
  lg2_l |-> [s |-> 1, m |-> <<27705, 6480, 29060, 130>>, e |-> 0 - 81],
  cp    |-> [s |-> 0, m |-> <<1021, 14452, 7207, 246>>, e |-> 0 - 53],
  cp_h  |-> [s |-> 0, m |-> <<0, 16384, 7207, 246>>, e |-> 0 - 53],
  cp_l  |-> [s |-> 1, m |-> <<501, 10422, 16256, 241>>, e |-> 0 - 80]]

\* z * 2^n: the exponent of z moved by n, rounded once if subnormal
PowScale(z, n) == FRound(z.s, z.m, z.e + n, 0)

\* r = (z*t1) / ((t1-two) - (w+z*w)); z = one - (r-z); the result is z * 2^n
PowExpDiv(n, z, w, t1) ==
  PowScale(FSub(One, FSub(FDiv(FMul(z, t1),
                               FSub(FSub(t1, FInt(2)), FAdd(w, FMul(z, w)))),
                          z)), n)

\* t1 = z - t*(P1+t*(P2+t*(P3+t*(P4+t*P5))))
PowExpQ(n, z, w, t) ==
  PowExpDiv(n, z, w,
    FSub(z, FMul(t, FAdd(PowK.P1, FMul(t, FAdd(PowK.P2, FMul(t,
            FAdd(PowK.P3, FMul(t, FAdd(PowK.P4, FMul(t, PowK.P5)))))))))))

\* z = u+v; w = v-(z-u); t = z*z
PowExpW(n, u, v) ==
  PowExpQ(n, FAdd(u, v), FSub(v, FSub(FAdd(u, v), u)),
          FMul(FAdd(u, v), FAdd(u, v)))

\* u = t*lg2_h; v = (p_l-(t-p_h))*lg2 + t*lg2_l
PowExpU(p_l, p_h, n, t) ==
  PowExpW(n, FMul(t, PowK.lg2_h),
          FAdd(FMul(FSub(p_l, FSub(t, p_h)), PowK.lg2), FMul(t, PowK.lg2_l)))

\* t = p_l+p_h; SET_LOW_WORD(t, 0)
PowExpT(p_l, p_h, n) == PowExpU(p_l, p_h, n, LowWordZero(FAdd(p_l, p_h)))

\* n = 0 unless |z| > 0.5 (i > 0, k its exponent): then n = [z+0.5] from
\* the fraction bits of i = |j| + (0x00100000 >> (k+1)), t is i without
\* the bits below the units, n and t take the sign of z, and p_h -= t
PowExpK(p_l, p_h, z, i, k) ==
  PowExpT(p_l,
          IF i = 0 THEN p_h
          ELSE FSub(p_h, [FromHighWord(i - (i % 2^(20 - k))) EXCEPT !.s = z.s]),
          IF i = 0 THEN 0
          ELSE (1 - 2 * z.s) * (((i % 2^20) + 2^20) \div 2^(20 - k)))

\* j the upper word of z.  z >= 1024 overflows, which needs y*log2(x) > 0;
\* |j| >= 0x4090cc00 is z <= -1075: the result underflows to 0 unless
\* z = -1075 and p_l > z-p_h; |j| > 0x3fe00000 is |z| > 0.5
PowExpZ(p_l, p_h, z, j) ==
  IF j >= 1083231232 /\ (z # FInt(0 - 1075) \/ FLe(p_l, FSub(z, p_h)))
  THEN Zero
  ELSE PowExpK(p_l, p_h, z,
               IF j > 1071644672
               THEN j + (2^20 \div 2^((j \div 2^20) - 1022)) ELSE 0,
               IF j > 1071644672
               THEN ((j + (2^20 \div 2^((j \div 2^20) - 1022))) \div 2^20) - 1023
               ELSE 0)

\* z = p_l+p_h
PowExp(p_l, p_h) ==
  PowExpZ(p_l, p_h, FAdd(p_l, p_h), HighWord(FAdd(p_l, p_h)))

\* t2 = z_l-(((t1-t)-dp_h[k])-z_h); y1 = y with a zero lower word;
\* p_l = (y-y1)*t1 + y*t2; p_h = y1*t1
PowT2(y, k, n, z_h, z_l, t1) ==
  PowExp(FAdd(FMul(FSub(y, LowWordZero(y)), t1),
              FMul(y, FSub(z_l, FSub(FSub(FSub(t1, FInt(n)), PowK.dp_h[k + 1]),
                                     z_h)))),
         FMul(LowWordZero(y), t1))

\* t = n; t1 = (((z_h+z_l)+dp_h[k])+t); SET_LOW_WORD(t1, 0)
PowT1(y, k, n, z_h, z_l) ==
  PowT2(y, k, n, z_h, z_l,
        LowWordZero(FAdd(FAdd(FAdd(z_h, z_l), PowK.dp_h[k + 1]), FInt(n))))

\* z_h = cp_h*p_h; z_l = cp_l*p_h + p_l*cp + dp_l[k]
PowZ(y, k, n, p_h, p_l) ==
  PowT1(y, k, n, FMul(PowK.cp_h, p_h),
        FAdd(FAdd(FMul(PowK.cp_l, p_h), FMul(p_l, PowK.cp)), PowK.dp_l[k + 1]))

\* p_h = u+v; SET_LOW_WORD(p_h, 0); p_l = v-(p_h-u)
PowUV(y, k, n, u, v) ==
  PowZ(y, k, n, LowWordZero(FAdd(u, v)),
       FSub(v, FSub(LowWordZero(FAdd(u, v)), u)))

\* t_h = 3.0+s2+r; SET_LOW_WORD(t_h, 0); t_l = r-((t_h-3.0)-s2);
\* u = s_h*t_h; v = s_l*t_h + t_l*ss
PowT(y, k, n, ss, s_h, s_l, r, s2) ==
  PowUV(y, k, n, FMul(s_h, LowWordZero(FAdd(FAdd(FInt(3), s2), r))),
        FAdd(FMul(s_l, LowWordZero(FAdd(FAdd(FInt(3), s2), r))),
             FMul(FSub(r, FSub(FSub(LowWordZero(FAdd(FAdd(FInt(3), s2), r)),
                                    FInt(3)), s2)), ss)))

\* r = s2*s2*(L1+s2*(L2+s2*(L3+s2*(L4+s2*(L5+s2*L6)))));
\* r += s_l*(s_h+ss); s2 = s_h*s_h
PowR(y, k, n, ss, s_h, s_l, s2) ==
  PowT(y, k, n, ss, s_h, s_l,
       FAdd(FMul(FMul(s2, s2),
                 FAdd(PowK.L1, FMul(s2, FAdd(PowK.L2, FMul(s2, FAdd(PowK.L3,
                   FMul(s2, FAdd(PowK.L4, FMul(s2, FAdd(PowK.L5,
                     FMul(s2, PowK.L6))))))))))),
            FMul(s_l, FAdd(s_h, ss))),
       FMul(s_h, s_h))

\* s_l = v*((u-s_h*t_h)-s_h*t_l); s2 = ss*ss
PowSLow(y, k, n, u, v, t_h, t_l, ss, s_h) ==
  PowR(y, k, n, ss, s_h,
       FMul(v, FSub(FSub(u, FMul(s_h, t_h)), FMul(s_h, t_l))),
       FMul(ss, ss))

\* t_l = ax - (t_h-bp[k]); ss = u*v; s_h = ss with a zero lower word
PowS(y, ax, k, n, u, v, t_h) ==
  PowSLow(y, k, n, u, v, t_h, FSub(ax, FSub(t_h, PowK.bp[k + 1])),
          FMul(u, v), LowWordZero(FMul(u, v)))

\* u = ax-bp[k]; v = one/(ax+bp[k]); t_h has the upper word
\* ((ix>>1)|0x20000000) + 0x00080000 + (k<<18), ix that of ax
PowLog(y, ax, k, n, ix) ==
  PowS(y, ax, k, n, FSub(ax, PowK.bp[k + 1]),
       FDiv(One, FAdd(ax, PowK.bp[k + 1])),
       FromHighWord((ix \div 2) + 2^29 + 2^19 + k * 2^18))

\* n the exponent of x and j the upper 20 bits of its fraction: ax is x
\* scaled into [1, 2), taken with bp = 1 if j <= 0x3988E (x < sqrt(3/2)),
\* with bp = 1.5 if j < 0xBB67A (x < sqrt(3)), and halved otherwise
PowInterval(x, y, n, j) ==
  PowLog(y, [x EXCEPT !.e = IF j < 767610 THEN 0 - 52 ELSE 0 - 53],
         IF j > 235662 /\ j < 767610 THEN 1 ELSE 0,
         IF j < 767610 THEN n ELSE n + 1,
         (IF j < 767610 THEN 1023 ELSE 1022) * 2^20 + j)

\* Math.pow(a, -n) for a >= 1 and an integer n >= 0: y = 0 gives 1,
\* y = -1 gives one/x, x = 1 gives one/1, x = Infinity gives 0
FPowNeg(a, n) ==
  IF n = 0 THEN One
  ELSE IF n = 1 THEN FDiv(One, a)
  ELSE IF a = One THEN One
  ELSE IF a = Infinity THEN Zero
  ELSE PowInterval(a, FInt(0 - n), a.e + 52, HighWord(a) % (2^20))

\* the literal 0.01 of line 176
Cent == [s |-> 0, m |-> <<5243, 3932, 27525, 163>>, e |-> 0 - 59]

IsPos(a) == a.m # <<>> /\ a.s = 0

IsNeg(a) == a.m # <<>> /\ a.s = 1

\* if (x < 0) x = 0
ClampZero(a) == IF IsNeg(a) THEN Zero ELSE a

\* x || 0 of lines 424, 434, 435, 487, 488, 584 and 585: 0 for NaN, which
\* is falsy as 0 is; !x is OrZero(x) = Zero
OrZero(a) == IF a.e = 1025 THEN Zero ELSE a

(***************************************************************************)
(* Inputs.  Money is given in cents and rates in percent a year, converted *)
(* the way a decimal literal is: to the nearest binary64.                  *)
(***************************************************************************)
MaxTerm == 3

MaxCap == 2

LongCap == 30

DefaultCap == 1200

Money(cents) == FDiv(FInt(cents), FInt(100))

Rate(percent) == FDiv(FInt(percent), FInt(100))

Principals == {Money(c) : c \in {0 - 100, 0, 100, 10000}}

Terms == (0 - 1)..MaxTerm

Rates == {Rate(p) : p \in {0, 6, 12}}

Caps == {MaxCap, LongCap}

ExtraPayments == {Money(c) : c \in {0, 100, 5000}}

VelocityRates == {Rate(p) : p \in {0, 12}}

HelocRates == {Rate(p) : p \in {0, 12}}

Chunks == {Money(c) : c \in {0 - 100, 0, 1, 5000}}

HelocPayments == {Money(c) : c \in {0, 50, 6000}}

AllPrincipals == {Money(c) : c \in {0, 100, 10000}}

AllTerms == {0, 1, MaxTerm}

AllChunks == {Money(c) : c \in {0, 5000}}

AllPayments == {Money(c) : c \in {0, 100, 6000}}

Returns == {Rate(p) : p \in {0, 12}}

MaxHorizon == 6

Horizons == {0 - 1, 0, 1, MaxHorizon}

Contributions == {Money(c) : c \in {0 - 100, 0, 10, 100}}

Interests == {Money(c) : c \in {0, 20, 50}}

\* the defaults of the form, useVelocityFormState.js lines 5-13
RefBalance == 500000

RefTerm == 300

RefChunk == 15000

RefPayment == 3000

\* "6.3" and "7" percent as App.jsx lines 33-34 convert them
RefRate == FDiv(FDiv(FInt(63), FInt(10)), FInt(100))

RefHelocRate == FDiv(FInt(7), FInt(100))

\* "10" percent, which the hook divides by 100 itself
RefReturn == FInt(10)

VARIABLES
  call,      \* the exported function the caller invoked
  args,      \* its parameter record
  pc,        \* the position of the running function
  stack,     \* the positions to return to, innermost first
  bl,        \* locals of the running computeBaselineMortgage
  blRet,     \* value returned by the last computeBaselineMortgage
  ex,        \* locals of simulateExtraPaymentStrategy
  exRet,     \* value returned by simulateExtraPaymentStrategy
  vb,        \* locals of simulateVelocityBanking
  vbRet,     \* value returned by simulateVelocityBanking
  inv,       \* locals of simulateInvestmentStrategy
  invRet,    \* value returned by simulateInvestmentStrategy
  all,       \* locals of simulateAllStrategies
  report,    \* value returned by simulateAllStrategies
  hook,      \* {result, error} of useVelocityBankingSimulation
  outcome    \* "running", "returned", or "thrown" while an error propagates

vars == <<call, args, pc, stack, bl, blRet, ex, exRet, vb, vbRet,
          inv, invRet, all, report, hook, outcome>>

Return == /\ pc' = IF stack = <<>> THEN "done" ELSE Head(stack)
          /\ stack' = IF stack = <<>> THEN <<>> ELSE Tail(stack)
          /\ outcome' = IF stack = <<>> THEN "returned" ELSE outcome

(***************************************************************************)
(* computeBaselineMortgage, lines 17-65                                    *)
(***************************************************************************)
BlIdle == [rM |-> Zero, baselineMonthlyPayment |-> Zero, balance |-> Zero,
           totalInterestBaseline |-> Zero, baselineMonths |-> 0]

BlZero == [baselineMonthlyPayment |-> Zero, baselineMonths |-> 0,
           totalInterestBaseline |-> Zero]

\* the guard of line 29 without its test of the principal
DegenerateTerm(P0, nM) == nM <= 0

\* lines 29 and 254: P0 <= 0 || nM <= 0, false of a principal that is NaN
Degenerate(P0, nM) == FLe(P0, Zero) \/ nM <= 0

\* line 39 with pw = Math.pow(1 + rM, -nM).  For rM <= 2^-53 the sum
\* 1 + rM is 1, pw is 1 and the divisor is 0: the payment is Infinity, or
\* NaN if P0 * rM is 0 as well
PaymentAt(P0, rM, pw) == FDiv(FMul(P0, rM), FSub(One, pw))

\* lines 37-42 with the term of a zero-rate loan taken as years
MonthlyPaymentYears(P0, nM, rM) ==
  IF IsPos(rM)
  THEN PaymentAt(P0, rM, FPowNeg(FAdd(One, rM), nM))
  ELSE FDiv(P0, FInt(nM * 12))

\* lines 37-42 (and 263-268): the level payment
MonthlyPayment(P0, nM, rM) ==
  IF IsPos(rM)
  THEN PaymentAt(P0, rM, FPowNeg(FAdd(One, rM), nM))
  ELSE FDiv(P0, FInt(nM))

\* lines 25-46
BaselineEnter ==
  /\ pc = "computeBaselineMortgage"
  /\ LET P0 == args.mortgageBalance
         nM == args.mortgageTermMonths
         rM == FDiv(args.mortgageRateAnnual, FInt(12))
     IN  IF Degenerate(P0, nM)
         THEN /\ blRet' = BlZero
              /\ bl' = BlIdle
              /\ Return
         ELSE /\ bl' = [rM |-> rM,
                        baselineMonthlyPayment |-> MonthlyPayment(P0, nM, rM),
                        balance |-> P0,
                        totalInterestBaseline |-> Zero,
                        baselineMonths |-> 0]
              /\ pc' = "baselineLoop"
              /\ UNCHANGED <<blRet, stack, outcome>>
  /\ UNCHANGED <<hook, call, args, ex, exRet, vb, vbRet, inv, invRet, all, report>>

\* line 48 with <= for <
BaselineCondThrough(f) ==
  IsPos(f.balance) /\ f.baselineMonths <= args.maxMonthsSimulated

\* line 48
BaselineCond(f) ==
  IsPos(f.balance) /\ f.baselineMonths < args.maxMonthsSimulated

\* lines 49-57 without the Math.min of line 51 and the clamp of line 57
BaselineStepUncapped(f) ==
  LET interest  == FMul(f.balance, f.rM)
      principal == FSub(f.baselineMonthlyPayment, interest)
  IN  [f EXCEPT !.baselineMonths = @ + 1,
                !.totalInterestBaseline = FAdd(@, interest),
                !.balance = FSub(@, principal)]

\* lines 49-57: one month
BaselineStep(f) ==
  LET interest  == FMul(f.balance, f.rM)
      payment   == FMin(f.baselineMonthlyPayment, FAdd(f.balance, interest))
      principal == FSub(payment, interest)
  IN  [f EXCEPT !.baselineMonths = @ + 1,
                !.totalInterestBaseline = FAdd(@, interest),
                !.balance = ClampZero(FSub(@, principal))]

BaselineMonth ==
  /\ pc = "baselineLoop"
  /\ BaselineCond(bl)
  /\ bl' = BaselineStep(bl)
  /\ UNCHANGED <<hook, call, args, pc, stack, blRet, ex, exRet, vb, vbRet, inv, invRet, all, report,
               outcome>>

\* lines 60-64
BaselineReturn ==
  /\ pc = "baselineLoop"
  /\ ~BaselineCond(bl)
  /\ blRet' = [baselineMonthlyPayment |-> bl.baselineMonthlyPayment,
               baselineMonths |-> bl.baselineMonths,
               totalInterestBaseline |-> bl.totalInterestBaseline]
  /\ Return
  /\ UNCHANGED <<hook, call, args, bl, ex, exRet, vb, vbRet, inv, invRet, all, report>>

(***************************************************************************)
(* simulateExtraPaymentStrategy, lines 241-298                             *)
(***************************************************************************)
ExIdle == [rM |-> Zero, baselineMonthlyPayment |-> Zero,
           extraPaymentPerMonth |-> Zero, balance |-> Zero,
           totalInterest |-> Zero, totalMonths |-> 0]

ExZero == [monthlyPayment |-> Zero, totalMonths |-> 0, totalInterest |-> Zero]

\* lines 250-272 with simulateAllStrategies passing an extra payment of its
\* own instead of helocPaymentPerMonth (line 424)
ExtraEnterOwn ==
  /\ pc = "simulateExtraPaymentStrategy"
  /\ LET P0 == args.mortgageBalance
         nM == args.mortgageTermMonths
         rM == FDiv(args.mortgageRateAnnual, FInt(12))
         extra == args.extraPaymentPerMonth
     IN  IF Degenerate(P0, nM)
         THEN /\ exRet' = ExZero
              /\ ex' = ExIdle
              /\ Return
         ELSE /\ ex' = [rM |-> rM,
                        baselineMonthlyPayment |-> MonthlyPayment(P0, nM, rM),
                        extraPaymentPerMonth |-> extra,
                        balance |-> P0,
                        totalInterest |-> Zero,
                        totalMonths |-> 0]
              /\ pc' = "extraLoop"
              /\ UNCHANGED <<exRet, stack, outcome>>
  /\ UNCHANGED <<hook, call, args, bl, blRet, vb, vbRet, inv, invRet, all, report>>

\* lines 250-272; extra is the extraPaymentPerMonth the caller passes,
\* helocPaymentPerMonth || 0 from simulateAllStrategies (line 424)
ExtraEnter ==
  /\ pc = "simulateExtraPaymentStrategy"
  /\ LET P0 == args.mortgageBalance
         nM == args.mortgageTermMonths
         rM == FDiv(args.mortgageRateAnnual, FInt(12))
         extra == IF call = "simulateExtraPaymentStrategy"
                  THEN args.extraPaymentPerMonth
                  ELSE OrZero(args.helocPaymentPerMonth)
     IN  IF Degenerate(P0, nM)
         THEN /\ exRet' = ExZero
              /\ ex' = ExIdle
              /\ Return
         ELSE /\ ex' = [rM |-> rM,
                        baselineMonthlyPayment |-> MonthlyPayment(P0, nM, rM),
                        extraPaymentPerMonth |-> extra,
                        balance |-> P0,
                        totalInterest |-> Zero,
                        totalMonths |-> 0]
              /\ pc' = "extraLoop"
              /\ UNCHANGED <<exRet, stack, outcome>>
  /\ UNCHANGED <<hook, call, args, bl, blRet, vb, vbRet, inv, invRet, all, report>>

\* line 274
ExtraCond(f) == IsPos(f.balance) /\ f.totalMonths < args.maxMonthsSimulated

\* lines 277-286 with the whole regular payment taken as principal
ExtraPrincipalPaidGross(f) ==
  LET regularPayment == FMin(f.baselineMonthlyPayment,
                             FAdd(f.balance, FMul(f.balance, f.rM)))
  IN  FAdd(regularPayment,
           FMin(f.extraPaymentPerMonth, FSub(f.balance, regularPayment)))

\* lines 277-286: the principal paid in one month
ExtraPrincipalPaid(f) ==
  LET interest             == FMul(f.balance, f.rM)
      regularPayment       == FMin(f.baselineMonthlyPayment,
                                   FAdd(f.balance, interest))
      principalFromRegular == FSub(regularPayment, interest)
      extraPrincipal       == FMin(f.extraPaymentPerMonth,
                                   FSub(f.balance, principalFromRegular))
  IN  FAdd(principalFromRegular, extraPrincipal)

\* lines 275-290 without the clamp of line 290
ExtraStepUnclamped(f) ==
  [f EXCEPT !.totalMonths = @ + 1,
            !.totalInterest = FAdd(@, FMul(f.balance, f.rM)),
            !.balance = FSub(@, ExtraPrincipalPaid(f))]

\* lines 275-290: one month
ExtraStep(f) ==
  [f EXCEPT !.totalMonths = @ + 1,
            !.totalInterest = FAdd(@, FMul(f.balance, f.rM)),
            !.balance = ClampZero(FSub(@, ExtraPrincipalPaid(f)))]

ExtraMonth ==
  /\ pc = "extraLoop"
  /\ ExtraCond(ex)
  /\ ex' = ExtraStep(ex)
  /\ UNCHANGED <<hook, call, args, pc, stack, bl, blRet, exRet, vb, vbRet, inv, invRet, all, report,
               outcome>>

\* lines 293-297 reporting the regular payment alone
ExtraReturnRegular ==
  /\ pc = "extraLoop"
  /\ ~ExtraCond(ex)
  /\ exRet' = [monthlyPayment |-> ex.baselineMonthlyPayment,
               totalMonths |-> ex.totalMonths,
               totalInterest |-> ex.totalInterest]
  /\ Return
  /\ UNCHANGED <<hook, call, args, bl, blRet, ex, vb, vbRet, inv, invRet, all, report>>

\* lines 293-297
ExtraReturn ==
  /\ pc = "extraLoop"
  /\ ~ExtraCond(ex)
  /\ exRet' = [monthlyPayment |-> FAdd(ex.baselineMonthlyPayment,
                                       ex.extraPaymentPerMonth),
               totalMonths |-> ex.totalMonths,
               totalInterest |-> ex.totalInterest]
  /\ Return
  /\ UNCHANGED <<hook, call, args, bl, blRet, ex, vb, vbRet, inv, invRet, all, report>>

(***************************************************************************)
(* simulateVelocityBanking, lines 92-224                                   *)
(***************************************************************************)
VbIdle == [rM |-> Zero, rH |-> Zero, baselineMonthlyPayment |-> Zero,
           mortBal |-> Zero, helocBal |-> Zero,
           totalInterestMortgageVB |-> Zero, totalInterestHelocVB |-> Zero,
           monthsVB |-> 0]

VbZero == [baselineMonthlyPayment |-> Zero, baselineMonths |-> 0,
           totalInterestBaseline |-> Zero, monthsVB |-> 0,
           totalInterestMortgageVB |-> Zero, totalInterestHelocVB |-> Zero,
           totalInterestVBCombined |-> Zero, interestSaved |-> Zero,
           timeSavedMonths |-> 0]

\* the helocChunkAmount simulateVelocityBanking receives: the caller's own, or
\* helocChunkAmount || 0 from simulateAllStrategies (line 434)
HelocChunkAmount ==
  IF call = "simulateVelocityBanking" THEN args.helocChunkAmount
  ELSE OrZero(args.helocChunkAmount)

\* the helocPaymentPerMonth simulateVelocityBanking receives: the caller's
\* own, or helocPaymentPerMonth || 0 from simulateAllStrategies (line 435)
HelocPaymentPerMonth ==
  IF call = "simulateVelocityBanking" THEN args.helocPaymentPerMonth
  ELSE OrZero(args.helocPaymentPerMonth)

\* lines 104-131 with the test of line 104 as helocChunkAmount === 0
VelocityEnterNonZero ==
  /\ pc = "simulateVelocityBanking"
  /\ pc' = "computeBaselineMortgage"
  /\ stack' = <<IF HelocChunkAmount # Zero
                THEN "velocityInit" ELSE "velocityNoChunk">> \o stack
  /\ UNCHANGED <<hook, call, args, bl, blRet, ex, exRet, vb, vbRet, inv, invRet,
                 all, report, outcome>>

\* lines 104-111 and 125-131: both branches first call computeBaselineMortgage
\* on the same loan; helocChunkAmount <= 0 is false of NaN
VelocityEnter ==
  /\ pc = "simulateVelocityBanking"
  /\ pc' = "computeBaselineMortgage"
  /\ stack' = <<IF FLe(HelocChunkAmount, Zero)
                THEN "velocityNoChunk" ELSE "velocityInit">> \o stack
  /\ UNCHANGED <<hook, call, args, bl, blRet, ex, exRet, vb, vbRet, inv, invRet, all, report,
               outcome>>

\* lines 113-122: no chunk, the baseline result
VelocityNoChunk ==
  /\ pc = "velocityNoChunk"
  /\ vbRet' = [baselineMonthlyPayment |-> blRet.baselineMonthlyPayment,
               baselineMonths |-> blRet.baselineMonths,
               totalInterestBaseline |-> blRet.totalInterestBaseline,
               monthsVB |-> blRet.baselineMonths,
               totalInterestMortgageVB |-> blRet.totalInterestBaseline,
               totalInterestHelocVB |-> Zero,
               totalInterestVBCombined |-> blRet.totalInterestBaseline,
               interestSaved |-> Zero,
               timeSavedMonths |-> 0]
  /\ Return
  /\ UNCHANGED <<hook, call, args, bl, blRet, ex, exRet, vb, inv, invRet, all, report>>

\* lines 133-151: the locals and the initial chunk
VelocityInit ==
  /\ pc = "velocityInit"
  /\ LET P0           == args.mortgageBalance
         initialChunk == FMin(HelocChunkAmount, P0)
     IN  vb' = [rM |-> FDiv(args.mortgageRateAnnual, FInt(12)),
                rH |-> FDiv(args.helocRateAnnual, FInt(12)),
                baselineMonthlyPayment |-> blRet.baselineMonthlyPayment,
                mortBal |-> FSub(P0, initialChunk),
                helocBal |-> FAdd(Zero, initialChunk),
                totalInterestMortgageVB |-> Zero,
                totalInterestHelocVB |-> Zero,
                monthsVB |-> 0]
  /\ pc' = "velocityLoop"
  /\ UNCHANGED <<hook, call, args, stack, bl, blRet, ex, exRet, vbRet, inv, invRet, all,
               report, outcome>>

\* line 153
VelocityCond(f) ==
  /\ IsPos(f.mortBal) \/ IsPos(f.helocBal)
  /\ f.monthsVB < args.maxMonthsSimulated

\* line 154
VelocityMonth ==
  /\ pc = "velocityLoop"
  /\ VelocityCond(vb)
  /\ vb' = [vb EXCEPT !.monthsVB = @ + 1]
  /\ pc' = "velocityMortgage"
  /\ UNCHANGED <<hook, call, args, stack, bl, blRet, ex, exRet, vbRet, inv, invRet, all,
               report, outcome>>

\* lines 157-169 with the payment computed anew from the month's balance
MortgageStepRecomputed(f) ==
  IF IsPos(f.mortBal)
  THEN LET mortInterest == FMul(f.mortBal, f.rM)
           payment      == IF args.mortgageTermMonths > 0
                           THEN MonthlyPayment(f.mortBal,
                                               args.mortgageTermMonths, f.rM)
                           ELSE f.baselineMonthlyPayment
           mortPaymentThisMonth == FMin(payment, FAdd(f.mortBal, mortInterest))
           mortPrincipalPaid    == FSub(mortPaymentThisMonth, mortInterest)
       IN  [f EXCEPT !.totalInterestMortgageVB = FAdd(@, mortInterest),
                     !.mortBal = ClampZero(FSub(@, mortPrincipalPaid))]
  ELSE f

\* lines 157-169
MortgageStep(f) ==
  IF IsPos(f.mortBal)
  THEN LET mortInterest         == FMul(f.mortBal, f.rM)
           mortPaymentThisMonth == FMin(f.baselineMonthlyPayment,
                                        FAdd(f.mortBal, mortInterest))
           mortPrincipalPaid    == FSub(mortPaymentThisMonth, mortInterest)
       IN  [f EXCEPT !.totalInterestMortgageVB = FAdd(@, mortInterest),
                     !.mortBal = ClampZero(FSub(@, mortPrincipalPaid))]
  ELSE f

VelocityMortgageStep ==
  /\ pc = "velocityMortgage"
  /\ vb' = MortgageStep(vb)
  /\ pc' = "velocityHeloc"
  /\ UNCHANGED <<hook, call, args, stack, bl, blRet, ex, exRet, vbRet, inv, invRet, all,
               report, outcome>>

\* line 173
HelocInterest(f) == FMul(f.helocBal, f.rH)

\* line 176 with < for <=
NegativeAmortizationBelow(f) ==
  /\ FLt(HelocPaymentPerMonth, HelocInterest(f))
  /\ FGt(f.helocBal, Cent)

\* line 176: the payment does not exceed this month's interest
NegativeAmortization(f) ==
  /\ FLe(HelocPaymentPerMonth, HelocInterest(f))
  /\ FGt(f.helocBal, Cent)

\* lines 183-190
HelocStep(f) ==
  LET helocInterest         == HelocInterest(f)
      helocPaymentThisMonth == FMin(HelocPaymentPerMonth,
                                    FAdd(f.helocBal, helocInterest))
      helocPrincipalPaid    == FSub(helocPaymentThisMonth, helocInterest)
  IN  [f EXCEPT !.helocBal = ClampZero(FSub(@, helocPrincipalPaid))]

\* lines 172-191; the throw of line 178 leaves every caller up to the top
VelocityHelocStep ==
  /\ pc = "velocityHeloc"
  /\ IF IsPos(vb.helocBal)
     THEN LET f == [vb EXCEPT !.totalInterestHelocVB =
                                 FAdd(@, HelocInterest(vb))]
          IN  IF NegativeAmortization(vb)
              THEN /\ vb' = f
                   /\ pc' = "thrown"
                   /\ stack' = <<>>
                   /\ outcome' = "thrown"
              ELSE /\ vb' = HelocStep(f)
                   /\ pc' = "velocityRepeat"
                   /\ UNCHANGED <<stack, outcome>>
     ELSE /\ pc' = "velocityRepeat"
          /\ UNCHANGED <<vb, stack, outcome>>
  /\ UNCHANGED <<hook, call, args, bl, blRet, ex, exRet, vbRet, inv, invRet, all, report>>

\* line 194 without the test of the line balance
RepeatCondAnyLine(f) == args.repeatChunks /\ IsPos(f.mortBal)

\* line 194 with helocBal <= 0.01 for helocBal === 0
RepeatCondCleared(f) ==
  args.repeatChunks /\ FLe(f.helocBal, Cent) /\ IsPos(f.mortBal)

\* line 194
RepeatCond(f) ==
  args.repeatChunks /\ f.helocBal = Zero /\ IsPos(f.mortBal)

\* lines 195-199 drawing the whole helocChunkAmount
RepeatChunkWhole(f) ==
  IF IsPos(HelocChunkAmount)
  THEN [f EXCEPT !.mortBal = FSub(@, HelocChunkAmount),
                 !.helocBal = FAdd(@, HelocChunkAmount)]
  ELSE f

\* lines 195-199
RepeatChunk(f) ==
  LET nextChunk == FMin(HelocChunkAmount, f.mortBal)
  IN  IF IsPos(nextChunk)
      THEN [f EXCEPT !.mortBal = FSub(@, nextChunk),
                     !.helocBal = FAdd(@, nextChunk)]
      ELSE f

\* lines 193-200
VelocityRepeatStep ==
  /\ pc = "velocityRepeat"
  /\ vb' = IF RepeatCond(vb) THEN RepeatChunk(vb) ELSE vb
  /\ pc' = "velocityLoop"
  /\ UNCHANGED <<hook, call, args, stack, bl, blRet, ex, exRet, vbRet, inv, invRet, all,
               report, outcome>>

\* lines 203-223
VelocityReturn ==
  /\ pc = "velocityLoop"
  /\ ~VelocityCond(vb)
  /\ LET totalInterestVBCombined ==
           FAdd(vb.totalInterestMortgageVB, vb.totalInterestHelocVB)
     IN  vbRet' = [baselineMonthlyPayment |-> blRet.baselineMonthlyPayment,
                   baselineMonths |-> blRet.baselineMonths,
                   totalInterestBaseline |-> blRet.totalInterestBaseline,
                   monthsVB |-> vb.monthsVB,
                   totalInterestMortgageVB |-> vb.totalInterestMortgageVB,
                   totalInterestHelocVB |-> vb.totalInterestHelocVB,
                   totalInterestVBCombined |-> totalInterestVBCombined,
                   interestSaved |-> FSub(blRet.totalInterestBaseline,
                                          totalInterestVBCombined),
                   timeSavedMonths |-> blRet.baselineMonths - vb.monthsVB]
  /\ Return
  /\ UNCHANGED <<hook, call, args, bl, blRet, ex, exRet, vb, inv, invRet, all, report>>

(***************************************************************************)
(* simulateInvestmentStrategy, lines 317-369                               *)
(***************************************************************************)
InvIdle == [investmentTermMonths |-> 0, extraPaymentPerMonth |-> Zero,
            monthlyReturn |-> Zero, baselineInterest |-> Zero,
            bestPaydownInterest |-> Zero, month |-> 0,
            totalValue |-> Zero, totalInvested |-> Zero]

InvZero == [totalMonths |-> 0, totalInvested |-> Zero, totalValue |-> Zero,
            investmentGains |-> Zero, netBenefit |-> Zero]

\* lines 485-491 with the extra-payment strategy for the best paydown one
InvestmentParamsExtra ==
  [investmentTermMonths |-> all.extraPayment.totalMonths,
   extraPaymentPerMonth |-> OrZero(args.helocPaymentPerMonth),
   investmentReturnAnnual |-> OrZero(args.investmentReturnAnnual),
   baselineInterest |-> all.baseline.totalInterestBaseline,
   bestPaydownInterest |-> all.extraPayment.totalInterest]

\* the parameter record of the call: lines 485-491 when simulateAllStrategies
\* calls, the caller's own otherwise
InvestmentParams ==
  IF call = "simulateInvestmentStrategy"
  THEN [investmentTermMonths |-> args.investmentTermMonths,
        extraPaymentPerMonth |-> args.extraPaymentPerMonth,
        investmentReturnAnnual |-> args.investmentReturnAnnual,
        baselineInterest |-> args.baselineInterest,
        bestPaydownInterest |-> args.bestPaydownInterest]
  ELSE [investmentTermMonths |-> all.bestPaydownData.data.totalMonths,
        extraPaymentPerMonth |-> OrZero(args.helocPaymentPerMonth),
        investmentReturnAnnual |-> OrZero(args.investmentReturnAnnual),
        baselineInterest |-> all.baseline.totalInterestBaseline,
        bestPaydownInterest |-> all.bestPaydownData.data.totalInterest]

\* lines 326-331 without the tests of the contribution
InvestmentDegenerateTerm(p) == p.investmentTermMonths <= 0

\* lines 326-331: !x || x <= 0 of the contribution and of the term
InvestmentDegenerate(p) ==
  \/ OrZero(p.extraPaymentPerMonth) = Zero
  \/ FLe(p.extraPaymentPerMonth, Zero)
  \/ p.investmentTermMonths <= 0

\* lines 318-348
InvestmentEnter ==
  /\ pc = "simulateInvestmentStrategy"
  /\ LET p == InvestmentParams
     IN  IF InvestmentDegenerate(p)
         THEN /\ invRet' = [InvZero EXCEPT
                              !.totalMonths = p.investmentTermMonths]
              /\ inv' = InvIdle
              /\ Return
         ELSE /\ inv' = [investmentTermMonths |-> p.investmentTermMonths,
                         extraPaymentPerMonth |-> p.extraPaymentPerMonth,
                         monthlyReturn |->
                           FDiv(p.investmentReturnAnnual, FInt(12)),
                         baselineInterest |-> p.baselineInterest,
                         bestPaydownInterest |-> p.bestPaydownInterest,
                         month |-> 1,
                         totalValue |-> Zero,
                         totalInvested |-> Zero]
              /\ pc' = "investmentLoop"
              /\ UNCHANGED <<invRet, stack, outcome>>
  /\ UNCHANGED <<hook, call, args, bl, blRet, ex, exRet, vb, vbRet, all, report>>

\* lines 350-353 compounding the month's contribution as well
InvestmentStepDue(f) ==
  [f EXCEPT !.totalInvested = FAdd(@, f.extraPaymentPerMonth),
            !.totalValue = FMul(FAdd(@, f.extraPaymentPerMonth),
                                FAdd(One, f.monthlyReturn)),
            !.month = @ + 1]

\* lines 350-353 and the month++ of line 348
InvestmentStep(f) ==
  [f EXCEPT !.totalInvested = FAdd(@, f.extraPaymentPerMonth),
            !.totalValue = FAdd(FMul(@, FAdd(One, f.monthlyReturn)),
                                f.extraPaymentPerMonth),
            !.month = @ + 1]

InvestmentMonth ==
  /\ pc = "investmentLoop"
  /\ inv.month <= inv.investmentTermMonths
  /\ inv' = InvestmentStep(inv)
  /\ UNCHANGED <<hook, call, args, pc, stack, bl, blRet, ex, exRet, vb, vbRet,
                 invRet, all, report, outcome>>

\* lines 356-368 with the saved interest taken the other way round
InvestmentResultReversed(f) ==
  LET investmentGains == FSub(f.totalValue, f.totalInvested)
  IN  [totalMonths |-> f.investmentTermMonths,
       totalInvested |-> f.totalInvested,
       totalValue |-> f.totalValue,
       investmentGains |-> investmentGains,
       netBenefit |-> FSub(investmentGains,
                           FSub(f.bestPaydownInterest, f.baselineInterest))]

\* lines 356-368
InvestmentResult(f) ==
  LET investmentGains            == FSub(f.totalValue, f.totalInvested)
      interestSavedByBestPaydown == FSub(f.baselineInterest,
                                         f.bestPaydownInterest)
  IN  [totalMonths |-> f.investmentTermMonths,
       totalInvested |-> f.totalInvested,
       totalValue |-> f.totalValue,
       investmentGains |-> investmentGains,
       netBenefit |-> FSub(investmentGains, interestSavedByBestPaydown)]

InvestmentReturn ==
  /\ pc = "investmentLoop"
  /\ inv.month > inv.investmentTermMonths
  /\ invRet' = InvestmentResult(inv)
  /\ Return
  /\ UNCHANGED <<hook, call, args, bl, blRet, ex, exRet, vb, vbRet, inv, all,
                 report>>

(***************************************************************************)
(* simulateAllStrategies, lines 398-540                                    *)
(***************************************************************************)
CmpZero == [interestSaved |-> Zero, timeSavedMonths |-> 0, yearsSaved |-> Zero]

VelocityZero == [totalMonths |-> 0, totalInterest |-> Zero,
                 mortgageInterest |-> Zero, helocInterest |-> Zero]

NoStrategy == [name |-> "", data |-> ExZero, comparison |-> CmpZero,
               color |-> ""]

AllIdle == [baseline |-> BlZero, extraPayment |-> ExZero,
            velocity |-> VelocityZero, extraVsBaseline |-> CmpZero,
            velocityVsBaseline |-> CmpZero, velocityVsExtra |-> CmpZero,
            bestPaydownData |-> NoStrategy]

NoReport == [baseline |-> ExZero, extraPayment |-> ExZero,
             velocity |-> VelocityZero, investment |-> InvZero,
             bestPaydownStrategy |-> NoStrategy,
             bestOverallStrategy |-> NoStrategy,
             comparisons |-> [extraVsBaseline |-> CmpZero,
                              velocityVsBaseline |-> CmpZero,
                              velocityVsExtra |-> CmpZero,
                              investmentVsBestPaydown |->
                                [netBenefit |-> Zero]]]

\* lines 411-417
AllEnter ==
  /\ pc = "simulateAllStrategies"
  /\ pc' = "computeBaselineMortgage"
  /\ stack' = <<"allExtra">> \o stack
  /\ UNCHANGED <<hook, call, args, bl, blRet, ex, exRet, vb, vbRet, inv, invRet,
                 all, report, outcome>>

\* lines 412 and 419-426
AllCallExtra ==
  /\ pc = "allExtra"
  /\ all' = [all EXCEPT !.baseline = blRet]
  /\ pc' = "simulateExtraPaymentStrategy"
  /\ stack' = <<"allVelocity">> \o stack
  /\ UNCHANGED <<hook, call, args, bl, blRet, ex, exRet, vb, vbRet, inv, invRet,
                 report, outcome>>

\* lines 420 and 428-438
AllCallVelocity ==
  /\ pc = "allVelocity"
  /\ all' = [all EXCEPT !.extraPayment = exRet]
  /\ pc' = "simulateVelocityBanking"
  /\ stack' = <<"allCompare">> \o stack
  /\ UNCHANGED <<hook, call, args, bl, blRet, ex, exRet, vb, vbRet, inv, invRet,
                 report, outcome>>

\* lines 448-464 with the interest of the two strategies exchanged
ComparisonReversed(otherInterest, otherMonths, thisInterest, thisMonths) ==
  [interestSaved |-> FSub(thisInterest, otherInterest),
   timeSavedMonths |-> otherMonths - thisMonths,
   yearsSaved |-> FDiv(FInt(otherMonths - thisMonths), FInt(12))]

\* lines 448-464: {interestSaved, timeSavedMonths, yearsSaved} of a strategy
\* against another
Comparison(otherInterest, otherMonths, thisInterest, thisMonths) ==
  [interestSaved |-> FSub(otherInterest, thisInterest),
   timeSavedMonths |-> otherMonths - thisMonths,
   yearsSaved |-> FDiv(FInt(otherMonths - thisMonths), FInt(12))]

\* lines 467-482 with >= for >
BestPaydownOrEqual(velocity, velocityVsBaseline, extraPayment, extraVsBaseline) ==
  IF ~FLt(velocityVsBaseline.interestSaved, extraVsBaseline.interestSaved)
  THEN [name |-> "Velocity Banking", data |-> velocity,
        comparison |-> velocityVsBaseline, color |-> "velocity"]
  ELSE [name |-> "Extra Payment", data |-> extraPayment,
        comparison |-> extraVsBaseline, color |-> "extra"]

\* lines 467-482
BestPaydown(velocity, velocityVsBaseline, extraPayment, extraVsBaseline) ==
  IF FGt(velocityVsBaseline.interestSaved, extraVsBaseline.interestSaved)
  THEN [name |-> "Velocity Banking", data |-> velocity,
        comparison |-> velocityVsBaseline, color |-> "velocity"]
  ELSE [name |-> "Extra Payment", data |-> extraPayment,
        comparison |-> extraVsBaseline, color |-> "extra"]

\* lines 440-491
AllCompare ==
  /\ pc = "allCompare"
  /\ LET baseline     == all.baseline
         extraPayment == all.extraPayment
         velocity == [totalMonths |-> vbRet.monthsVB,
                      totalInterest |-> vbRet.totalInterestVBCombined,
                      mortgageInterest |-> vbRet.totalInterestMortgageVB,
                      helocInterest |-> vbRet.totalInterestHelocVB]
         extraVsBaseline ==
           Comparison(baseline.totalInterestBaseline, baseline.baselineMonths,
                      extraPayment.totalInterest, extraPayment.totalMonths)
         velocityVsBaseline ==
           Comparison(baseline.totalInterestBaseline, baseline.baselineMonths,
                      velocity.totalInterest, velocity.totalMonths)
         velocityVsExtra ==
           Comparison(extraPayment.totalInterest, extraPayment.totalMonths,
                      velocity.totalInterest, velocity.totalMonths)
     IN  all' = [all EXCEPT
                   !.velocity = velocity,
                   !.extraVsBaseline = extraVsBaseline,
                   !.velocityVsBaseline = velocityVsBaseline,
                   !.velocityVsExtra = velocityVsExtra,
                   !.bestPaydownData =
                      BestPaydown(velocity, velocityVsBaseline,
                                  extraPayment, extraVsBaseline)]
  /\ pc' = "simulateInvestmentStrategy"
  /\ stack' = <<"allFinish">> \o stack
  /\ UNCHANGED <<hook, call, args, bl, blRet, ex, exRet, vb, vbRet, inv, invRet,
                 report, outcome>>

\* lines 499-516 with >= for >
BestOverallOrEqual(investment, bestPaydownData) ==
  IF ~IsNeg(investment.netBenefit)
  THEN [name |-> "Investment Strategy", data |-> investment,
        comparison |-> [netBenefit |-> investment.netBenefit],
        color |-> "investment", type |-> "investment"]
  ELSE [name |-> bestPaydownData.name, data |-> bestPaydownData.data,
        comparison |-> bestPaydownData.comparison,
        color |-> bestPaydownData.color, type |-> "paydown"]

\* lines 499-516
BestOverall(investment, bestPaydownData) ==
  IF IsPos(investment.netBenefit)
  THEN [name |-> "Investment Strategy", data |-> investment,
        comparison |-> [netBenefit |-> investment.netBenefit],
        color |-> "investment", type |-> "investment"]
  ELSE [name |-> bestPaydownData.name, data |-> bestPaydownData.data,
        comparison |-> bestPaydownData.comparison,
        color |-> bestPaydownData.color, type |-> "paydown"]

\* lines 485 and 493-539
AllFinish ==
  /\ pc = "allFinish"
  /\ report' =
       [baseline |-> [monthlyPayment |-> all.baseline.baselineMonthlyPayment,
                      totalMonths |-> all.baseline.baselineMonths,
                      totalInterest |-> all.baseline.totalInterestBaseline],
        extraPayment |-> all.extraPayment,
        velocity |-> all.velocity,
        investment |-> invRet,
        bestPaydownStrategy |-> all.bestPaydownData,
        bestOverallStrategy |-> BestOverall(invRet, all.bestPaydownData),
        comparisons |-> [extraVsBaseline |-> all.extraVsBaseline,
                         velocityVsBaseline |-> all.velocityVsBaseline,
                         velocityVsExtra |-> all.velocityVsExtra,
                         investmentVsBestPaydown |->
                           [netBenefit |-> invRet.netBenefit]]]
  /\ Return
  /\ UNCHANGED <<hook, call, args, bl, blRet, ex, exRet, vb, vbRet, inv, invRet,
                 all>>

(***************************************************************************)
(* useVelocityBankingSimulation, lines 563-606.  The hook is given numbers *)
(* (App.jsx converts the form fields), so Number() changes nothing and no  *)
(* rate is null.  result and error are the values the hook returns once    *)
(* the state set at lines 567 and 591 is rendered; null is <<>>.           *)
(***************************************************************************)
HookIdle == [result |-> <<>>, error |-> <<>>]

\* the message of the Error thrown at lines 178-180
NegativeAmortizationMessage ==
  "HELOC payment is too low to pay down the balance (negative amortization). Increase HELOC payment."

\* lines 566-589: the guard, then the call of simulateAllStrategies with
\* the return given in percent and the default cap
HookEnter ==
  /\ pc = "useVelocityBankingSimulation"
  /\ hook' = HookIdle
  /\ IF OrZero(args.mortgageBalance) = Zero \/ args.mortgageTermMonths = 0
     THEN /\ pc' = "done"
          /\ outcome' = "returned"
          /\ UNCHANGED <<args, stack>>
     ELSE /\ args' = [args EXCEPT
                        !.helocChunkAmount = OrZero(@),
                        !.helocPaymentPerMonth = OrZero(@),
                        !.investmentReturnAnnual = FDiv(OrZero(@), FInt(100)),
                        !.maxMonthsSimulated = DefaultCap]
          /\ pc' = "simulateAllStrategies"
          /\ stack' = <<"hookReturn">>
          /\ UNCHANGED outcome
  /\ UNCHANGED <<call, bl, blRet, ex, exRet, vb, vbRet, inv, invRet, all,
                 report>>

\* line 579: the report becomes the result
HookReturn ==
  /\ pc = "hookReturn"
  /\ hook' = [hook EXCEPT !.result = <<report>>]
  /\ Return
  /\ UNCHANGED <<call, args, bl, blRet, ex, exRet, vb, vbRet, inv, invRet,
                 all, report>>

\* lines 590-593 without the setError of line 591
HookCatchSilent ==
  /\ call = "useVelocityBankingSimulation"
  /\ pc = "thrown"
  /\ hook' = [result |-> <<>>, error |-> <<>>]
  /\ pc' = "done"
  /\ outcome' = "returned"
  /\ UNCHANGED <<call, args, stack, bl, blRet, ex, exRet, vb, vbRet, inv,
                 invRet, all, report>>

\* lines 590-593: the error thrown inside simulateAllStrategies is caught
HookCatch ==
  /\ call = "useVelocityBankingSimulation"
  /\ pc = "thrown"
  /\ hook' = [result |-> <<>>, error |-> <<NegativeAmortizationMessage>>]
  /\ pc' = "done"
  /\ outcome' = "returned"
  /\ UNCHANGED <<call, args, stack, bl, blRet, ex, exRet, vb, vbRet, inv,
                 invRet, all, report>>

(***************************************************************************)
(* The calls a caller makes.                                               *)
(***************************************************************************)
NoArgs ==
  [mortgageBalance |-> Zero, mortgageTermMonths |-> 0,
   mortgageRateAnnual |-> Zero, maxMonthsSimulated |-> DefaultCap,
   extraPaymentPerMonth |-> Zero, helocRateAnnual |-> Zero,
   helocChunkAmount |-> Zero, helocPaymentPerMonth |-> Zero,
   repeatChunks |-> FALSE, investmentReturnAnnual |-> Zero,
   investmentTermMonths |-> 0, baselineInterest |-> Zero,
   bestPaydownInterest |-> Zero]

WithLoan(a, p, n, r, c) ==
  [a EXCEPT !.mortgageBalance = p, !.mortgageTermMonths = n,
            !.mortgageRateAnnual = r, !.maxMonthsSimulated = c]

WithHeloc(a, hr, ch, hp, rep) ==
  [a EXCEPT !.helocRateAnnual = hr, !.helocChunkAmount = ch,
            !.helocPaymentPerMonth = hp, !.repeatChunks = rep]

BaselineCalls ==
  {WithLoan(NoArgs, p, n, r, c) :
     p \in Principals, n \in Terms, r \in Rates, c \in Caps \cup {DefaultCap}}

\* a loan of 0.21 over MaxTerm months at rate 0, the default cap
CentsLoan == WithLoan(NoArgs, Money(21), MaxTerm, Zero, DefaultCap)

ExtraCalls ==
  {[a EXCEPT !.extraPaymentPerMonth = x] :
     a \in BaselineCalls \cup {CentsLoan}, x \in ExtraPayments}

VelocityLoans ==
  {WithLoan(NoArgs, p, n, r, c) :
     p \in Principals, n \in Terms, r \in VelocityRates, c \in Caps}

VelocityCalls ==
  {WithHeloc(a, hr, ch, hp, rep) :
     a \in VelocityLoans, hr \in HelocRates, ch \in Chunks,
     hp \in HelocPayments, rep \in BOOLEAN}

AllLoans ==
  {WithLoan(NoArgs, p, n, r, LongCap) :
     p \in AllPrincipals, n \in AllTerms, r \in Rates}

AllCalls ==
  {[WithHeloc(a, hr, ch, hp, rep) EXCEPT !.investmentReturnAnnual = ir] :
     a \in AllLoans, hr \in HelocRates, ch \in AllChunks,
     hp \in AllPayments, rep \in BOOLEAN, ir \in Returns}

InvestmentCalls ==
  {[NoArgs EXCEPT !.investmentTermMonths = h, !.extraPaymentPerMonth = c,
                  !.investmentReturnAnnual = ir, !.baselineInterest = bi,
                  !.bestPaydownInterest = pi] :
     h \in Horizons, c \in Contributions, ir \in Returns,
     bi \in Interests, pi \in Interests}

\* the loan of 0.21 with chunks of 0.05
CentsCalls ==
  {WithHeloc(CentsLoan, hr, Money(5), hp, rep) :
     hr \in HelocRates, hp \in HelocPayments, rep \in BOOLEAN}

\* a loan of 0.01 with a chunk of 50 and no line payment
PennyCalls ==
  {WithHeloc(WithLoan(NoArgs, Cent, MaxTerm, Zero, LongCap),
             hr, Money(5000), Zero, rep) :
     hr \in HelocRates, rep \in BOOLEAN}

\* the reference loan of the form's defaults at mortgage rate r
ReferenceCall(r) ==
  WithHeloc(WithLoan(NoArgs, FInt(RefBalance), RefTerm, r, DefaultCap),
            RefHelocRate, FInt(RefChunk), FInt(RefPayment), TRUE)

\* an annual rate of 1e-15: rM is below 2^-53 and 1 + rM is 1
VanishingRate == [s |-> 0, m |-> <<22038, 15822, 3774, 144>>, e |-> 0 - 102]

\* the form's default mortgage rate, lower and higher ones, and one at
\* which the divisor of line 39 is 0
ReferenceRates == {RefRate, Rate(1), Rate(12), Rate(30), VanishingRate}

\* the reference loan at 3% over ten years: Math.pow(1 + rM, -nM) is one
\* ulp below the nearest binary64, which changes the payment of line 39
TenYearCall ==
  [ReferenceCall(Rate(3)) EXCEPT !.mortgageTermMonths = 120,
                                 !.extraPaymentPerMonth = FInt(RefPayment)]

\* what App.jsx hands to the hook: small loans, and the form's defaults
HookCalls ==
  {[WithHeloc(WithLoan(NoArgs, p, n, Rate(6), DefaultCap),
              Rate(12), ch, hp, rep) EXCEPT !.investmentReturnAnnual = FInt(ir)] :
     p \in {Zero, Money(10000)}, n \in {0, MaxTerm}, ch \in AllChunks,
     hp \in AllPayments, rep \in BOOLEAN, ir \in {0, 12}}
  \cup {[ReferenceCall(RefRate) EXCEPT !.investmentReturnAnnual = RefReturn]}

Init ==
  /\ \/ call = "computeBaselineMortgage"
          /\ args \in BaselineCalls \cup {TenYearCall}
     \/ call = "simulateExtraPaymentStrategy"
          /\ args \in ExtraCalls \cup {TenYearCall}
     \/ call = "simulateVelocityBanking"
          /\ args \in VelocityCalls \cup CentsCalls \cup {TenYearCall}
                        \cup {ReferenceCall(r) : r \in ReferenceRates}
     \/ call = "simulateInvestmentStrategy" /\ args \in InvestmentCalls
     \/ call = "simulateAllStrategies"
          /\ args \in AllCalls \cup PennyCalls \cup {TenYearCall}
                        \cup {ReferenceCall(r) : r \in ReferenceRates}
     \/ call = "useVelocityBankingSimulation" /\ args \in HookCalls
  /\ pc = call
  /\ stack = <<>>
  /\ bl = BlIdle
  /\ blRet = BlZero
  /\ ex = ExIdle
  /\ exRet = ExZero
  /\ vb = VbIdle
  /\ vbRet = VbZero
  /\ inv = InvIdle
  /\ invRet = InvZero
  /\ all = AllIdle
  /\ report = NoReport
  /\ hook = HookIdle
  /\ outcome = "running"

Next ==
  \/ BaselineEnter
  \/ BaselineMonth
  \/ BaselineReturn
  \/ ExtraEnter
  \/ ExtraMonth
  \/ ExtraReturn
  \/ VelocityEnter
  \/ VelocityNoChunk
  \/ VelocityInit
  \/ VelocityMonth
  \/ VelocityMortgageStep
  \/ VelocityHelocStep
  \/ VelocityRepeatStep
  \/ VelocityReturn
  \/ InvestmentEnter
  \/ InvestmentMonth
  \/ InvestmentReturn
  \/ AllEnter
  \/ AllCallExtra
  \/ AllCallVelocity
  \/ AllCompare
  \/ AllFinish
  \/ HookEnter
  \/ HookReturn
  \/ HookCatch

Spec == Init /\ [][Next]_vars
(***************************************************************************)
(* Properties of simulateVelocityBanking                                   *)
(***************************************************************************)
\* the line interest of the month: lineBalance * helocRateAnnual / 12
LineInterest == FMul(vb.helocBal, FDiv(args.helocRateAnnual, FInt(12)))

\* the HELOC step of the month is about to run on a line balance above 0.01
\* with a payment that does not exceed the month's interest
PaymentTooLow ==
  /\ IsPos(args.helocChunkAmount)
  /\ FGt(vb.helocBal, Cent)
  /\ FLe(args.helocPaymentPerMonth, LineInterest)

\* C1 as stated: such a month ends the call with the negative-amortization
\* error in that same month, and monthsVB never reaches maxMonthsSimulated in
\* a run that ends in the error.  The error can be raised in the cap month
\* itself, where monthsVB = maxMonthsSimulated.
NegativeAmortizationBeforeCap ==
  /\ [][/\ outcome = "thrown" => (vb' = vb /\ pc' = "done")
        /\ (pc = "velocityHeloc" /\ PaymentTooLow)
             => /\ outcome' = "thrown"
                /\ pc' = "thrown"
                /\ vb'.monthsVB = vb.monthsVB]_vars
  /\ [](outcome = "thrown" => vb.monthsVB < args.maxMonthsSimulated)

\* C1: in simulateVelocityBanking with helocChunkAmount > 0, a month in which
\* the line balance is above 0.01 and helocPaymentPerMonth is at most that
\* month's line interest ends the call with the negative-amortization error
\* in that same month, and no simulation step runs after the error (only a
\* catching caller's handler): the loop does not go on to be stopped by the
\* cap, whichever month the error is raised in
NegativeAmortizationThrows ==
  [][/\ outcome = "thrown" => (vb' = vb /\ pc' = "done")
     /\ (pc = "velocityHeloc" /\ PaymentTooLow)
          => /\ outcome' = "thrown"
             /\ pc' = "thrown"
             /\ vb'.monthsVB = vb.monthsVB]_vars

\* the error raised in a month after the first
ThrownInLaterMonth ==
  /\ outcome = "thrown"
  /\ call = "simulateVelocityBanking"
  /\ PaymentTooLow
  /\ vb.monthsVB > 1

\* simulateVelocityBanking has returned to its caller
VelocityReturned ==
  \/ call = "simulateVelocityBanking" /\ pc = "done"
  \/ pc = "allCompare"

\* C2: with helocChunkAmount <= 0 simulateVelocityBanking returns the result
\* of computeBaselineMortgage on the same loan (monthsVB = baselineMonths,
\* mortgage and combined interest = totalInterestBaseline, line interest 0)
\* and never raises the negative-amortization error, whatever the line
\* payment and rate
NoChunkIsBaseline ==
  ~IsPos(args.helocChunkAmount) =>
    /\ outcome # "thrown"
    /\ VelocityReturned =>
         /\ vbRet.monthsVB = blRet.baselineMonths
         /\ vbRet.baselineMonths = blRet.baselineMonths
         /\ vbRet.baselineMonthlyPayment = blRet.baselineMonthlyPayment
         /\ vbRet.totalInterestBaseline = blRet.totalInterestBaseline
         /\ vbRet.totalInterestMortgageVB = blRet.totalInterestBaseline
         /\ vbRet.totalInterestVBCombined = blRet.totalInterestBaseline
         /\ vbRet.totalInterestHelocVB = Zero
         /\ vbRet.interestSaved = Zero
         /\ vbRet.timeSavedMonths = 0

\* a call without a chunk whose zero payment on a line at interest would be
\* an error with a chunk, returned after a baseline of several months
NoChunkReturned ==
  /\ call = "simulateVelocityBanking"
  /\ pc = "done"
  /\ IsNeg(args.helocChunkAmount)
  /\ args.helocPaymentPerMonth = Zero
  /\ IsPos(args.helocRateAnnual)
  /\ vbRet.monthsVB > 1
  /\ IsPos(vbRet.totalInterestMortgageVB)

(***************************************************************************)
(* Properties of computeBaselineMortgage and simulateExtraPaymentStrategy  *)
(***************************************************************************)
\* C3: with extraPaymentPerMonth = 0, simulateExtraPaymentStrategy returns
\* the totalMonths and totalInterest that computeBaselineMortgage returns as
\* baselineMonths and totalInterestBaseline for the same loan, and its loop
\* ends in the balance state the baseline loop ended in
ZeroExtraIsBaseline ==
  (call = "simulateAllStrategies" /\ args.helocPaymentPerMonth = Zero) =>
    /\ pc = "extraLoop" =>
         /\ ex.baselineMonthlyPayment = bl.baselineMonthlyPayment
         /\ ex.totalMonths <= bl.baselineMonths
         /\ ~ExtraCond(ex) =>
              /\ ex.balance = bl.balance
              /\ ex.totalMonths = bl.baselineMonths
              /\ ex.totalInterest = bl.totalInterestBaseline
    /\ pc = "allVelocity" =>
         /\ exRet.totalMonths = all.baseline.baselineMonths
         /\ exRet.totalInterest = all.baseline.totalInterestBaseline

\* both have returned for a loan at interest that took a month more than its
\* term
ZeroExtraReturned ==
  /\ call = "simulateAllStrategies"
  /\ pc = "allVelocity"
  /\ args.helocPaymentPerMonth = Zero
  /\ IsPos(exRet.totalInterest)
  /\ exRet.totalMonths > args.mortgageTermMonths

\* mortgageBalance <= 0 or mortgageTermMonths <= 0
DegenerateLoan ==
  ~IsPos(args.mortgageBalance) \/ args.mortgageTermMonths <= 0

\* C4: with mortgageBalance <= 0 or mortgageTermMonths <= 0,
\* computeBaselineMortgage and simulateExtraPaymentStrategy return the
\* all-zero result without entering their loops and without raising an error
DegenerateIsZero ==
  DegenerateLoan =>
    /\ pc \notin {"baselineLoop", "extraLoop"}
    /\ bl = BlIdle
    /\ ex = ExIdle
    /\ call = "computeBaselineMortgage" =>
         /\ outcome # "thrown"
         /\ pc = "done" => blRet = BlZero
    /\ call = "simulateExtraPaymentStrategy" =>
         /\ outcome # "thrown"
         /\ pc = "done" => exRet = ExZero

\* simulateExtraPaymentStrategy has returned for a positive balance, a
\* negative term and a positive extra payment
DegenerateReturned ==
  /\ call = "simulateExtraPaymentStrategy"
  /\ pc = "done"
  /\ outcome = "returned"
  /\ IsPos(args.mortgageBalance)
  /\ args.mortgageTermMonths < 0
  /\ IsPos(args.extraPaymentPerMonth)

\* C5: a non-positive principal or a non-positive term never raises an error
\* and gives all-zero results in every simulator, simulateVelocityBanking
\* with helocChunkAmount > 0 and simulateAllStrategies included (velocity
\* months 0, mortgage interest 0, line interest 0)
DegenerateNeverFails ==
  DegenerateLoan =>
    /\ outcome # "thrown"
    /\ VelocityReturned =>
         /\ vbRet.monthsVB = 0
         /\ vbRet.totalInterestMortgageVB = Zero
         /\ vbRet.totalInterestHelocVB = Zero
    /\ (call = "simulateAllStrategies" /\ pc = "done") =>
         /\ report.velocity.totalMonths = 0
         /\ report.velocity.mortgageInterest = Zero
         /\ report.velocity.helocInterest = Zero
         /\ report.extraPayment = ExZero
         /\ report.baseline = ExZero

\* C6: for principal > 0, term n > 0 and rate >= 0, computeBaselineMortgage
\* (under its default cap) ends with the balance at 0 and baselineMonths = n
BaselinePaysOffInTerm ==
  (/\ call = "computeBaselineMortgage"
   /\ pc = "done"
   /\ args.maxMonthsSimulated = DefaultCap
   /\ ~DegenerateLoan) =>
    /\ bl.balance = Zero
    /\ blRet.baselineMonths = args.mortgageTermMonths

\* C7: for mortgageRateAnnual = 0, principal > 0 and term n > 0,
\* computeBaselineMortgage returns baselineMonthlyPayment = principal / n
\* and totalInterestBaseline = 0
ZeroRatePayment ==
  (/\ call = "computeBaselineMortgage"
   /\ pc = "done"
   /\ args.mortgageRateAnnual = Zero
   /\ ~DegenerateLoan) =>
    /\ blRet.baselineMonthlyPayment =
         FDiv(args.mortgageBalance, FInt(args.mortgageTermMonths))
    /\ blRet.totalInterestBaseline = Zero

\* a zero-rate loan of the longest term has returned
ZeroRateReturned ==
  /\ call = "computeBaselineMortgage"
  /\ pc = "done"
  /\ args.mortgageRateAnnual = Zero
  /\ IsPos(args.mortgageBalance)
  /\ args.mortgageTermMonths = MaxTerm
  /\ blRet.baselineMonths >= MaxTerm
  /\ IsPos(blRet.baselineMonthlyPayment)

\* the month counters of the three loops are within the cap
WithinCap ==
  /\ bl.baselineMonths <= args.maxMonthsSimulated
  /\ ex.totalMonths <= args.maxMonthsSimulated
  /\ vb.monthsVB <= args.maxMonthsSimulated

\* C8: in the baseline, extra-payment and velocity loops the month counter
\* never exceeds maxMonthsSimulated, and a loop that reaches the cap with a
\* positive balance stops there: the call returns a result with months = cap
\* and raises no error
CapStopsLoop ==
  /\ []WithinCap
  /\ [][/\ (/\ pc = "baselineLoop"
             /\ bl.baselineMonths = args.maxMonthsSimulated
             /\ IsPos(bl.balance))
            => /\ blRet'.baselineMonths = args.maxMonthsSimulated
               /\ pc' # "baselineLoop"
               /\ outcome' # "thrown"
        /\ (/\ pc = "extraLoop"
             /\ ex.totalMonths = args.maxMonthsSimulated
             /\ IsPos(ex.balance))
            => /\ exRet'.totalMonths = args.maxMonthsSimulated
               /\ pc' # "extraLoop"
               /\ outcome' # "thrown"
        /\ (/\ pc = "velocityLoop"
             /\ vb.monthsVB = args.maxMonthsSimulated
             /\ (IsPos(vb.mortBal) \/ IsPos(vb.helocBal)))
            => /\ vbRet'.monthsVB = args.maxMonthsSimulated
               /\ pc' \notin {"velocityLoop", "velocityMortgage"}
               /\ outcome' # "thrown"]_vars

\* simulateVelocityBanking has returned at the cap with mortgage balance
\* left, for a loan of positive principal and term
CapReached ==
  /\ call = "simulateVelocityBanking"
  /\ pc = "done"
  /\ outcome = "returned"
  /\ ~DegenerateLoan
  /\ IsPos(vb.mortBal)
  /\ vbRet.monthsVB = args.maxMonthsSimulated

(***************************************************************************)
(* Properties of simulateAllStrategies                                     *)
(***************************************************************************)
\* C9: bestPaydownStrategy is Velocity Banking if and only if
\* velocityVsBaseline.interestSaved > extraVsBaseline.interestSaved, and
\* Extra Payment otherwise, on a tie too; the record carries the data of
\* the selected strategy and its comparison against the baseline
PaydownSelection ==
  (call = "simulateAllStrategies" /\ pc = "done") =>
    IF FGt(report.comparisons.velocityVsBaseline.interestSaved,
           report.comparisons.extraVsBaseline.interestSaved)
    THEN /\ report.bestPaydownStrategy.name = "Velocity Banking"
         /\ report.bestPaydownStrategy.data = report.velocity
         /\ report.bestPaydownStrategy.comparison =
              report.comparisons.velocityVsBaseline
    ELSE /\ report.bestPaydownStrategy.name = "Extra Payment"
         /\ report.bestPaydownStrategy.data = report.extraPayment
         /\ report.bestPaydownStrategy.comparison =
              report.comparisons.extraVsBaseline

\* a tie on a positive interestSaved
PaydownTie ==
  /\ call = "simulateAllStrategies"
  /\ pc = "done"
  /\ IsPos(report.comparisons.extraVsBaseline.interestSaved)
  /\ report.comparisons.velocityVsBaseline.interestSaved =
       report.comparisons.extraVsBaseline.interestSaved
  /\ report.bestPaydownStrategy.name = "Extra Payment"

\* C10: bestOverallStrategy has type "investment" if and only if
\* investment.netBenefit > 0; otherwise, at netBenefit = 0 too, it has type
\* "paydown" and the name and data of bestPaydownStrategy
OverallSelection ==
  (call = "simulateAllStrategies" /\ pc = "done") =>
    IF IsPos(report.investment.netBenefit)
    THEN /\ report.bestOverallStrategy.type = "investment"
         /\ report.bestOverallStrategy.name = "Investment Strategy"
         /\ report.bestOverallStrategy.data = report.investment
    ELSE /\ report.bestOverallStrategy.type = "paydown"
         /\ report.bestOverallStrategy.name = report.bestPaydownStrategy.name
         /\ report.bestOverallStrategy.data = report.bestPaydownStrategy.data

\* an investment of several months that gains exactly what the paydown saves
OverallTie ==
  /\ call = "simulateAllStrategies"
  /\ pc = "done"
  /\ report.investment.netBenefit = Zero
  /\ IsPos(report.investment.totalInvested)
  /\ report.investment.totalMonths > 1
  /\ report.bestOverallStrategy.type = "paydown"

(***************************************************************************)
(* Properties of the investment projection and of the comparisons          *)
(***************************************************************************)
\* C11: inside simulateAllStrategies the investment projection runs over the
\* selected best paydown strategy's totalMonths, with that strategy's
\* totalInterest as bestPaydownInterest and the baseline's interest as
\* baselineInterest, and every report has investment.totalMonths =
\* bestPaydownStrategy.data.totalMonths
InvestmentOverBestPaydown ==
  call = "simulateAllStrategies" =>
    /\ pc = "investmentLoop" =>
         /\ inv.investmentTermMonths = all.bestPaydownData.data.totalMonths
         /\ inv.bestPaydownInterest = all.bestPaydownData.data.totalInterest
         /\ inv.baselineInterest = all.baseline.totalInterestBaseline
    /\ pc = "allFinish" =>
         invRet.totalMonths = all.bestPaydownData.data.totalMonths
    /\ pc = "done" =>
         /\ report.investment.totalMonths =
              report.bestPaydownStrategy.data.totalMonths
         /\ report.investment = invRet

\* a report whose best paydown strategy is Velocity Banking, over a horizon
\* that is neither the extra-payment strategy's nor the baseline's
InvestedOverVelocity ==
  /\ call = "simulateAllStrategies"
  /\ pc = "done"
  /\ report.bestPaydownStrategy.name = "Velocity Banking"
  /\ report.investment.totalMonths > 0
  /\ report.investment.totalMonths # report.extraPayment.totalMonths
  /\ report.investment.totalMonths # report.baseline.totalMonths
  /\ IsPos(report.investment.totalInvested)

\* a comparison record of the report is derived from two strategy results
DerivedFrom(cmp, other, this) ==
  /\ cmp.interestSaved = FSub(other.totalInterest, this.totalInterest)
  /\ cmp.timeSavedMonths = other.totalMonths - this.totalMonths
  /\ cmp.yearsSaved = FDiv(FInt(other.totalMonths - this.totalMonths), FInt(12))

\* 2^-50, four units in the last place of a number between 1 and 2
Rounding == [s |-> 0, m |-> <<0, 0, 0, 128>>, e |-> 0 - 102]

\* |x|
FAbs(x) == [x EXCEPT !.s = 0]

\* velocityVsBaseline.interestSaved - extraVsBaseline.interestSaved
SavedDifference ==
  FSub(report.comparisons.velocityVsBaseline.interestSaved,
       report.comparisons.extraVsBaseline.interestSaved)

\* C12 as stated: in every report the three comparisons are derived from
\* the strategy results, hence velocityVsExtra.interestSaved =
\* velocityVsBaseline.interestSaved - extraVsBaseline.interestSaved.  Each of
\* the three differences is rounded, so the last equation can be off by a
\* rounding error.
ComparisonsDerivedExactly ==
  (call = "simulateAllStrategies" /\ pc = "done") =>
    /\ DerivedFrom(report.comparisons.extraVsBaseline,
                   report.baseline, report.extraPayment)
    /\ DerivedFrom(report.comparisons.velocityVsBaseline,
                   report.baseline, report.velocity)
    /\ DerivedFrom(report.comparisons.velocityVsExtra,
                   report.extraPayment, report.velocity)
    /\ report.comparisons.velocityVsExtra.interestSaved = SavedDifference

\* C12: in every report each of extra-vs-baseline, velocity-vs-baseline and
\* velocity-vs-extra has interestSaved = otherInterest - thisInterest,
\* timeSavedMonths = otherMonths - thisMonths and yearsSaved =
\* timeSavedMonths / 12 over the two strategy results of the report, and
\* velocityVsExtra.interestSaved differs from velocityVsBaseline.interestSaved
\* - extraVsBaseline.interestSaved by at most 2^-50 of the three interests
ComparisonsDerived ==
  (call = "simulateAllStrategies" /\ pc = "done") =>
    /\ DerivedFrom(report.comparisons.extraVsBaseline,
                   report.baseline, report.extraPayment)
    /\ DerivedFrom(report.comparisons.velocityVsBaseline,
                   report.baseline, report.velocity)
    /\ DerivedFrom(report.comparisons.velocityVsExtra,
                   report.extraPayment, report.velocity)
    /\ FLe(FAbs(FSub(report.comparisons.velocityVsExtra.interestSaved,
                     SavedDifference)),
           FMul(Rounding,
                FAdd(report.baseline.totalInterest,
                     FAdd(report.extraPayment.totalInterest,
                          report.velocity.totalInterest))))

\* a report in which the two sides of that equation differ
SavedDifferenceRounded ==
  /\ call = "simulateAllStrategies"
  /\ pc = "done"
  /\ IsPos(report.velocity.totalInterest)
  /\ report.comparisons.velocityVsExtra.interestSaved # SavedDifference

(***************************************************************************)
(* Properties of error propagation                                         *)
(***************************************************************************)
\* C13: when simulateVelocityBanking throws inside simulateAllStrategies the
\* error reaches the caller as an outcome of its own: no report is built
\* although the baseline and the extra-payment results are already there;
\* the hook catches it and returns result = null with the error's message
ErrorReachesCaller ==
  /\ []((call \in {"simulateAllStrategies", "useVelocityBankingSimulation"}
          /\ outcome = "thrown")
        => /\ pc = "thrown"
           /\ report = NoReport
           /\ all.baseline = blRet
           /\ all.extraPayment = exRet)
  /\ [][(call = "useVelocityBankingSimulation" /\ outcome = "thrown")
         => /\ hook'.result = <<>>
            /\ hook'.error = <<NegativeAmortizationMessage>>
            /\ outcome' = "returned"
            /\ report' = NoReport]_vars
  /\ []((call = "useVelocityBankingSimulation" /\ pc = "done")
        => (hook.result = <<>> \/ hook.error = <<>>))

\* the hook has returned an error for a loan whose baseline and
\* extra-payment results were computed
HookReportsError ==
  /\ call = "useVelocityBankingSimulation"
  /\ pc = "done"
  /\ hook.result = <<>>
  /\ hook.error # <<>>
  /\ all.baseline.baselineMonths > 0
  /\ all.extraPayment.totalMonths > 0

(***************************************************************************)
(* Properties of simulateInvestmentStrategy                                *)
(***************************************************************************)
\* value_0 = 0, value_m = value_(m-1) * (1 + monthlyRate) + c
RECURSIVE ValueAfter(_, _, _)
ValueAfter(c, r, m) ==
  IF m = 0 THEN Zero ELSE FAdd(FMul(ValueAfter(c, r, m - 1), FAdd(One, r)), c)

\* c + c + ... + c, m times, added one at a time
RECURSIVE InvestedAfter(_, _)
InvestedAfter(c, m) ==
  IF m = 0 THEN Zero ELSE FAdd(InvestedAfter(c, m - 1), c)

\* the investment loop runs with c > 0 and h > 0
Investing == pc = "investmentLoop"

\* simulateInvestmentStrategy has returned from its loop
Invested ==
  /\ call = "simulateInvestmentStrategy"
  /\ pc = "done"
  /\ ~InvestmentDegenerate(args)

\* C14 as stated: the value follows the recurrence, totalInvested = c * h,
\* and at return rate 0 totalValue = c * h and investmentGains = 0
InvestedIsProduct ==
  /\ Investing =>
       inv.totalValue = ValueAfter(inv.extraPaymentPerMonth,
                                   inv.monthlyReturn, inv.month - 1)
  /\ Invested =>
       LET product == FMul(args.extraPaymentPerMonth,
                           FInt(args.investmentTermMonths))
       IN  /\ invRet.totalInvested = product
           /\ args.investmentReturnAnnual = Zero =>
                (invRet.totalValue = product /\ invRet.investmentGains = Zero)

\* C14: the value follows value_0 = 0, value_m = value_(m-1) * (1 +
\* monthlyRate) + c; totalInvested is c added h times, which is c * h up to
\* rounding and exactly c * h for a whole-number c; at return rate 0
\* totalValue = totalInvested and investmentGains = 0
InvestmentRecurrence ==
  /\ Investing =>
       /\ IsPos(inv.extraPaymentPerMonth) /\ inv.investmentTermMonths > 0
       /\ inv.month \in 1..(inv.investmentTermMonths + 1)
       /\ inv.totalValue = ValueAfter(inv.extraPaymentPerMonth,
                                      inv.monthlyReturn, inv.month - 1)
       /\ inv.totalInvested = InvestedAfter(inv.extraPaymentPerMonth,
                                            inv.month - 1)
  /\ Invested =>
       LET c       == args.extraPaymentPerMonth
           h       == args.investmentTermMonths
           product == FMul(c, FInt(h))
       IN  /\ invRet.totalMonths = h
           /\ invRet.totalValue =
                ValueAfter(c, FDiv(args.investmentReturnAnnual, FInt(12)), h)
           /\ invRet.totalInvested = InvestedAfter(c, h)
           /\ FLe(FAbs(FSub(invRet.totalInvested, product)),
                  FMul(Rounding, FMul(product, FInt(h))))
           /\ c \in {FInt(k) : k \in 1..100} => invRet.totalInvested = product
           /\ args.investmentReturnAnnual = Zero =>
                /\ invRet.totalValue = invRet.totalInvested
                /\ invRet.investmentGains = Zero

\* a return at rate 0 whose totalInvested is not the product c * h
InvestedSumRounded ==
  /\ Invested
  /\ args.investmentReturnAnnual = Zero
  /\ invRet.totalValue = invRet.totalInvested
  /\ invRet.totalInvested # FMul(args.extraPaymentPerMonth,
                                 FInt(args.investmentTermMonths))

\* C15: for c > 0 and h > 0 the returned netBenefit is investmentGains -
\* (baselineInterest - bestPaydownInterest) on the interests passed in, and
\* investmentGains is totalValue - totalInvested
NetBenefitFormula ==
  /\ Invested =>
       /\ invRet.investmentGains =
            FSub(invRet.totalValue, invRet.totalInvested)
       /\ invRet.netBenefit =
            FSub(invRet.investmentGains,
                 FSub(args.baselineInterest, args.bestPaydownInterest))
  /\ (call = "simulateAllStrategies" /\ pc = "done" /\ outcome = "returned"
      /\ IsPos(args.helocPaymentPerMonth)
      /\ report.bestPaydownStrategy.data.totalMonths > 0) =>
       report.investment.netBenefit =
         FSub(FSub(report.investment.totalValue,
                   report.investment.totalInvested),
              FSub(report.baseline.totalInterest,
                   report.bestPaydownStrategy.data.totalInterest))

\* a return with gains and with different interests passed in
NetBenefitWithSavedInterest ==
  /\ Invested
  /\ invRet.investmentGains # Zero
  /\ args.baselineInterest # args.bestPaydownInterest
  /\ args.bestPaydownInterest # Zero
  /\ invRet.netBenefit # invRet.investmentGains

\* C16: with horizon h <= 0 or contribution c <= 0 simulateInvestmentStrategy
\* raises no error and returns totalInvested = totalValue = investmentGains
\* = netBenefit = 0 with totalMonths = the horizon passed in, whatever the
\* interests passed in
DegenerateInvestmentIsZero ==
  /\ call = "simulateInvestmentStrategy" =>
       /\ outcome # "thrown"
       /\ (pc = "done" /\ (args.investmentTermMonths <= 0
                            \/ FLe(args.extraPaymentPerMonth, Zero))) =>
            /\ outcome = "returned"
            /\ inv = InvIdle
            /\ invRet = [totalMonths |-> args.investmentTermMonths,
                         totalInvested |-> Zero, totalValue |-> Zero,
                         investmentGains |-> Zero, netBenefit |-> Zero]
  /\ (call = "simulateAllStrategies" /\ pc = "done" /\ outcome = "returned"
      /\ (FLe(args.helocPaymentPerMonth, Zero)
          \/ report.bestPaydownStrategy.data.totalMonths <= 0)) =>
       report.investment =
         [totalMonths |-> report.bestPaydownStrategy.data.totalMonths,
          totalInvested |-> Zero, totalValue |-> Zero,
          investmentGains |-> Zero, netBenefit |-> Zero]

\* a return for a negative horizon with a positive contribution and
\* different interests passed in
DegenerateInvestmentReturned ==
  /\ call = "simulateInvestmentStrategy"
  /\ pc = "done"
  /\ args.investmentTermMonths < 0
  /\ IsPos(args.extraPaymentPerMonth)
  /\ args.baselineInterest # args.bestPaydownInterest
  /\ invRet.totalMonths = args.investmentTermMonths
  /\ invRet.netBenefit = Zero

(***************************************************************************)
(* Properties of the reference loan                                        *)
(***************************************************************************)
\* principal 500000 over 300 months at a positive mortgage rate
ReferenceLoan ==
  /\ args.mortgageBalance = FInt(RefBalance)
  /\ args.mortgageTermMonths = RefTerm
  /\ IsPos(args.mortgageRateAnnual)

\* line rate 7%/yr, chunk 15000, line payment 3000, repeated chunks
ReferenceLine ==
  /\ args.helocRateAnnual = RefHelocRate
  /\ args.helocChunkAmount = FInt(RefChunk)
  /\ args.helocPaymentPerMonth = FInt(RefPayment)
  /\ args.repeatChunks

\* C17: on the reference loan with the reference line simulateVelocityBanking
\* meets the negative-amortization test in no month, does not fail, and
\* returns monthsVB strictly less than baselineMonths
ReferenceVelocityCompletes ==
  (ReferenceLoan /\ ReferenceLine) =>
    /\ outcome # "thrown"
    /\ pc = "velocityHeloc" => ~NegativeAmortization(vb)
    /\ (call = "simulateVelocityBanking" /\ pc = "done") =>
         /\ outcome = "returned"
         /\ vbRet.monthsVB > 0
         /\ vbRet.monthsVB < vbRet.baselineMonths
         /\ vbRet.baselineMonths = blRet.baselineMonths
    /\ (call = "useVelocityBankingSimulation" /\ pc = "done") =>
         /\ hook.error = <<>>
         /\ hook.result = <<report>>
         /\ report.velocity.totalMonths > 0
         /\ report.velocity.totalMonths < report.baseline.totalMonths

\* C18: on the reference loan an extra payment of 3000 returns strictly
\* fewer months and strictly less interest than the baseline, and on every
\* valid loan an extra payment >= 0 returns no more months and no more
\* interest than the baseline
ExtraNeverWorse ==
  call \in {"simulateAllStrategies", "useVelocityBankingSimulation"} =>
    /\ all.extraPayment.totalMonths <= all.baseline.baselineMonths
    /\ FLe(all.extraPayment.totalInterest, all.baseline.totalInterestBaseline)
    /\ (ReferenceLoan /\ args.helocPaymentPerMonth = FInt(RefPayment)
        /\ all.extraPayment = exRet /\ exRet # ExZero) =>
         /\ all.extraPayment.totalMonths < all.baseline.baselineMonths
         /\ FLt(all.extraPayment.totalInterest,
                all.baseline.totalInterestBaseline)
    /\ (pc = "done" /\ report # NoReport) =>
         /\ report.extraPayment.totalMonths = exRet.totalMonths
         /\ report.extraPayment.totalMonths <= report.baseline.totalMonths
         /\ FLe(report.extraPayment.totalInterest,
                report.baseline.totalInterest)

(***************************************************************************)
(* Properties of the extra-payment and baseline loops                      *)
(***************************************************************************)
\* C19: for every non-degenerate loan simulateExtraPaymentStrategy reports
\* monthlyPayment = the regular level payment + the extraPaymentPerMonth
\* passed in, whatever extra principal the last month applied
NominalMonthlyPayment ==
  /\ (call = "simulateExtraPaymentStrategy" /\ pc = "done"
      /\ ~Degenerate(args.mortgageBalance, args.mortgageTermMonths)) =>
       exRet.monthlyPayment =
         FAdd(MonthlyPayment(args.mortgageBalance, args.mortgageTermMonths,
                             FDiv(args.mortgageRateAnnual, FInt(12))),
              args.extraPaymentPerMonth)
  /\ (call = "simulateAllStrategies" /\ pc = "done" /\ outcome = "returned"
      /\ ~Degenerate(args.mortgageBalance, args.mortgageTermMonths)) =>
       report.extraPayment.monthlyPayment =
         FAdd(report.baseline.monthlyPayment, args.helocPaymentPerMonth)

\* a return whose nominal monthly payment exceeds all that was ever paid:
\* the extra principal of the only month was clamped
ClampedExtraReturned ==
  /\ call = "simulateExtraPaymentStrategy"
  /\ pc = "done"
  /\ IsPos(args.extraPaymentPerMonth)
  /\ exRet.totalMonths = 1
  /\ args.mortgageTermMonths > 1
  /\ FGt(exRet.monthlyPayment,
         FAdd(args.mortgageBalance, exRet.totalInterest))

\* C20: in the baseline loop every month computes interest = balance * r and
\* payment = min(fixedPayment, balance + interest) and reduces the balance
\* by payment - interest; the balance is never negative, the counter rises
\* by one per iteration, and the loop is left only with balance = 0 or with
\* the counter at the cap
BaselineLoopInvariant ==
  /\ [](pc = "baselineLoop" =>
          /\ ~IsNeg(bl.balance)
          /\ bl.baselineMonths \in 0..args.maxMonthsSimulated
          /\ ~IsNeg(bl.totalInterestBaseline))
  /\ [][(pc = "baselineLoop" /\ pc' = "baselineLoop") =>
          LET interest == FMul(bl.balance, bl.rM)
              payment  == IF FLt(bl.baselineMonthlyPayment,
                                 FAdd(bl.balance, interest))
                          THEN bl.baselineMonthlyPayment
                          ELSE FAdd(bl.balance, interest)
              reduced  == FSub(bl.balance, FSub(payment, interest))
          IN  /\ IsPos(bl.balance)
              /\ bl'.baselineMonths = bl.baselineMonths + 1
              /\ bl'.balance = IF IsNeg(reduced) THEN Zero ELSE reduced
              /\ bl'.totalInterestBaseline =
                   FAdd(bl.totalInterestBaseline, interest)
              /\ bl'.baselineMonthlyPayment = bl.baselineMonthlyPayment
              /\ bl'.rM = bl.rM]_vars
  /\ [][(pc = "baselineLoop" /\ pc' # "baselineLoop") =>
          /\ (bl.balance = Zero
              \/ bl.baselineMonths = args.maxMonthsSimulated)
          /\ blRet'.baselineMonths = bl.baselineMonths
          /\ bl' = bl]_vars

\* the loop stands at its head with the balance paid off by a capped last
\* payment, before the cap
BaselinePaidOff ==
  /\ call = "computeBaselineMortgage"
  /\ pc = "baselineLoop"
  /\ bl.balance = Zero
  /\ bl.baselineMonths > 1
  /\ bl.baselineMonths < args.maxMonthsSimulated
  /\ IsPos(bl.totalInterestBaseline)

\* the balance the month of lines 275-289 leaves before the clamp of line 290
ExtraUnclamped(f) ==
  LET interest == FMul(f.balance, f.rM)
      regular  == IF FLt(f.baselineMonthlyPayment, FAdd(f.balance, interest))
                  THEN f.baselineMonthlyPayment
                  ELSE FAdd(f.balance, interest)
      fromRegular == FSub(regular, interest)
      remaining   == FSub(f.balance, fromRegular)
      extraPrincipal == IF FLt(f.extraPaymentPerMonth, remaining)
                        THEN f.extraPaymentPerMonth ELSE remaining
  IN  FSub(f.balance, FAdd(fromRegular, extraPrincipal))

\* C21 as stated: with extraPaymentPerMonth >= 0 the principal paid in a
\* month never exceeds the balance, so the balance is >= 0 before the clamp
ExtraNeedsNoClamp ==
  (pc = "extraLoop" /\ ExtraCond(ex) /\ ~IsNeg(ex.extraPaymentPerMonth)) =>
    /\ FLe(ExtraPrincipalPaid(ex), ex.balance)
    /\ ~IsNeg(ExtraUnclamped(ex))

\* C21: in the extra-payment loop the extra principal of a month is
\* min(extraPaymentPerMonth, balance - principalFromRegular); with
\* extraPaymentPerMonth >= 0 the principal paid exceeds the balance by no
\* more than rounding, and the balance is >= 0 at every loop head, being
\* clamped to 0 when rounding takes it below
ExtraBalanceNonNegative ==
  /\ [](pc = "extraLoop" =>
          /\ ~IsNeg(ex.balance)
          /\ (ExtraCond(ex) /\ ~IsNeg(ex.extraPaymentPerMonth)) =>
               /\ FSub(ex.balance, ExtraPrincipalPaid(ex)) = ExtraUnclamped(ex)
               /\ FLe(FNeg(ExtraUnclamped(ex)), FMul(Rounding, ex.balance)))
  /\ [][(pc = "extraLoop" /\ pc' = "extraLoop") =>
          /\ IsPos(ex.balance)
          /\ ex'.totalMonths = ex.totalMonths + 1
          /\ ex'.balance = IF IsNeg(ExtraUnclamped(ex))
                           THEN Zero ELSE ExtraUnclamped(ex)]_vars

\* a month is about to pay more principal than the balance: only the clamp
\* keeps the balance from going negative
ExtraRoundsOverBalance ==
  /\ call = "simulateExtraPaymentStrategy"
  /\ pc = "extraLoop"
  /\ ExtraCond(ex)
  /\ IsPos(ex.extraPaymentPerMonth)
  /\ FGt(ExtraPrincipalPaid(ex), ex.balance)
  /\ IsNeg(ExtraUnclamped(ex))

(***************************************************************************)
(* Properties of the velocity banking loop                                 *)
(***************************************************************************)
\* Math.min(helocChunkAmount, balance)
ChunkOf(balance) ==
  IF FLt(args.helocChunkAmount, balance) THEN args.helocChunkAmount
  ELSE balance

\* the two sums differ by no more than rounding
NearlyEqual(x, y) == FLe(FAbs(FSub(x, y)), FMul(Rounding, FAbs(y)))

\* the chunk is a whole number of currency units
WholeChunk == args.helocChunkAmount \in {FInt(50), FInt(RefChunk)}

\* C22 as stated: every draw moves min(helocChunkAmount, mortgageBalance)
\* and leaves mortgageBalance + lineBalance unchanged; after the initial draw
\* the sum is the original principal and the counter is 0
DrawKeepsSumExactly ==
  [][/\ pc = "velocityInit" =>
          /\ vb'.monthsVB = 0
          /\ FAdd(vb'.mortBal, vb'.helocBal) = args.mortgageBalance
     /\ (pc = "velocityRepeat" /\ vb' # vb) =>
          FAdd(vb'.mortBal, vb'.helocBal) = FAdd(vb.mortBal, vb.helocBal)]_vars

\* C22: every draw (the initial one and each repeat draw) takes
\* min(helocChunkAmount, mortgageBalance) off the mortgage balance and adds
\* it to the line balance; mortgageBalance + lineBalance is unchanged up to
\* rounding, and exactly for a whole-number chunk; after the initial draw
\* the counter is still 0
DrawMovesChunk ==
  [][/\ pc = "velocityInit" =>
          LET chunk == ChunkOf(args.mortgageBalance)
          IN  /\ vb'.monthsVB = 0
              /\ vb'.mortBal = FSub(args.mortgageBalance, chunk)
              /\ vb'.helocBal = chunk
              /\ NearlyEqual(FAdd(vb'.mortBal, vb'.helocBal),
                             args.mortgageBalance)
              /\ WholeChunk =>
                   FAdd(vb'.mortBal, vb'.helocBal) = args.mortgageBalance
     /\ (pc = "velocityRepeat" /\ vb' # vb) =>
          LET chunk == ChunkOf(vb.mortBal)
          IN  /\ vb.helocBal = Zero
              /\ vb'.mortBal = FSub(vb.mortBal, chunk)
              /\ vb'.helocBal = chunk
              /\ vb'.monthsVB = vb.monthsVB
              /\ NearlyEqual(FAdd(vb'.mortBal, vb'.helocBal), vb.mortBal)
              /\ WholeChunk =>
                   FAdd(vb'.mortBal, vb'.helocBal) = vb.mortBal]_vars

\* the initial chunk was drawn and the two balances no longer add up to the
\* principal
DrawnSumRounded ==
  /\ pc = "velocityLoop"
  /\ vb.monthsVB = 0
  /\ vb.helocBal = args.helocChunkAmount
  /\ IsPos(vb.mortBal)
  /\ FAdd(vb.mortBal, vb.helocBal) # args.mortgageBalance

\* a step inside the loop of lines 153-201
InVelocityLoop ==
  pc \in {"velocityLoop", "velocityMortgage", "velocityHeloc",
          "velocityRepeat"}

\* C23 as stated: a chunk is drawn at the end of a month exactly when
\* repeatChunks is set, the line balance is 0 and the mortgage balance is
\* > 0; with repeatChunks unset the line balance never increases after the
\* initial draw; with it set the line balance is not 0 at the start of a
\* month while the mortgage balance is positive
LineNeverGrows ==
  /\ [][(pc = "velocityRepeat") =>
          (vb' # vb <=> (args.repeatChunks /\ vb.helocBal = Zero
                         /\ IsPos(vb.mortBal)))]_vars
  /\ [][(InVelocityLoop /\ ~args.repeatChunks) =>
          FLe(vb'.helocBal, vb.helocBal)]_vars
  /\ []((pc = "velocityLoop" /\ args.repeatChunks /\ IsPos(vb.mortBal))
        => vb.helocBal # Zero)

\* C23: a chunk is drawn at the end of a month exactly when repeatChunks is
\* set, the line balance is 0 and the mortgage balance is > 0; with
\* repeatChunks unset the line balance increases after the initial draw only
\* in a line step on a balance of at most 0.01 whose payment is below the
\* month's interest; with repeatChunks set the line balance is not 0 at the
\* start of a month while the mortgage balance is positive
DrawnWhenCleared ==
  /\ [][(pc = "velocityRepeat") =>
          (vb' # vb <=> (args.repeatChunks /\ vb.helocBal = Zero
                         /\ IsPos(vb.mortBal)))]_vars
  /\ [][(InVelocityLoop /\ ~args.repeatChunks
          /\ FGt(vb'.helocBal, vb.helocBal)) =>
          /\ pc = "velocityHeloc"
          /\ FLe(vb.helocBal, Cent)
          /\ FLt(args.helocPaymentPerMonth, FMul(vb.helocBal, vb.rH))]_vars
  /\ []((pc = "velocityLoop" /\ args.repeatChunks /\ IsPos(vb.mortBal))
        => vb.helocBal # Zero)

\* without repeat chunks the line balance stands above the chunk drawn at
\* the start, after the line step of month 1
LineGrewUnderThreshold ==
  /\ call = "simulateVelocityBanking"
  /\ ~args.repeatChunks
  /\ pc = "velocityRepeat"
  /\ vb.monthsVB = 1
  /\ FGt(vb.helocBal, ChunkOf(args.mortgageBalance))

\* the level payment of the baseline on the original loan
OriginalPayment ==
  IF Degenerate(args.mortgageBalance, args.mortgageTermMonths)
  THEN Zero
  ELSE MonthlyPayment(args.mortgageBalance, args.mortgageTermMonths,
                      FDiv(args.mortgageRateAnnual, FInt(12)))

\* C24: in every month the mortgage step runs first, then the line step,
\* then the repeat check; a step runs exactly when its balance is > 0 at
\* that point; the mortgage step pays the baseline payment computed once on
\* the original loan; a drawn chunk accrues no line interest before the
\* line step of the following month
MonthOrder ==
  /\ [](InVelocityLoop =>
          /\ vb.baselineMonthlyPayment = blRet.baselineMonthlyPayment
          /\ pc = "velocityMortgage" =>
               vb.baselineMonthlyPayment = OriginalPayment)
  /\ [][InVelocityLoop =>
          /\ pc = "velocityLoop" =>
               /\ pc' \in {"velocityMortgage"} \cup {"done", "allCompare"}
               /\ pc' = "velocityMortgage" =>
                    (vb'.monthsVB = vb.monthsVB + 1
                     /\ [vb' EXCEPT !.monthsVB = 0]
                          = [vb EXCEPT !.monthsVB = 0])
          /\ pc = "velocityMortgage" =>
               /\ pc' = "velocityHeloc"
               /\ vb'.helocBal = vb.helocBal
               /\ vb'.totalInterestHelocVB = vb.totalInterestHelocVB
               /\ vb'.monthsVB = vb.monthsVB
               /\ IF IsPos(vb.mortBal)
                  THEN LET interest == FMul(vb.mortBal, vb.rM)
                           payment  ==
                             IF FLt(blRet.baselineMonthlyPayment,
                                    FAdd(vb.mortBal, interest))
                             THEN blRet.baselineMonthlyPayment
                             ELSE FAdd(vb.mortBal, interest)
                           reduced  ==
                             FSub(vb.mortBal, FSub(payment, interest))
                       IN  /\ vb'.totalInterestMortgageVB =
                                FAdd(vb.totalInterestMortgageVB, interest)
                           /\ vb'.mortBal =
                                IF IsNeg(reduced) THEN Zero ELSE reduced
                  ELSE vb' = vb
          /\ pc = "velocityHeloc" =>
               /\ pc' \in {"velocityRepeat", "thrown"}
               /\ vb'.mortBal = vb.mortBal
               /\ vb'.totalInterestMortgageVB = vb.totalInterestMortgageVB
               /\ IF IsPos(vb.helocBal)
                  THEN vb'.totalInterestHelocVB =
                         FAdd(vb.totalInterestHelocVB,
                              FMul(vb.helocBal, vb.rH))
                  ELSE vb' = vb
          /\ pc = "velocityRepeat" =>
               /\ pc' = "velocityLoop"
               /\ vb'.totalInterestHelocVB = vb.totalInterestHelocVB
               /\ vb'.totalInterestMortgageVB = vb.totalInterestMortgageVB
               /\ vb'.monthsVB = vb.monthsVB]_vars

\* month 2 stands before its line step with the chunk drawn at the end of
\* month 1, which has accrued no interest yet
ChunkBeforeFirstInterest ==
  /\ call = "simulateVelocityBanking"
  /\ pc = "velocityHeloc"
  /\ vb.monthsVB = 2
  /\ args.repeatChunks
  /\ vb.helocBal = ChunkOf(FAdd(vb.mortBal, vb.helocBal))
  /\ vb.totalInterestHelocVB =
       FMul(ChunkOf(args.mortgageBalance), vb.rH)
  /\ IsPos(vb.totalInterestHelocVB)
  /\ IsPos(vb.mortBal)

\* C25: the loop is left only with both balances 0 or with monthsVB
\* at the cap; a return with monthsVB below the cap has both balances 0; the
\* combined interest is the sum of the two interest totals
PaidOffOrCapped ==
  /\ [][(pc = "velocityLoop" /\ pc' # "velocityMortgage") =>
          /\ ((vb.mortBal = Zero /\ vb.helocBal = Zero)
              \/ vb.monthsVB = args.maxMonthsSimulated)
          /\ vbRet'.monthsVB = vb.monthsVB
          /\ vbRet'.totalInterestVBCombined =
               FAdd(vbRet'.totalInterestMortgageVB,
                    vbRet'.totalInterestHelocVB)
          /\ vbRet'.totalInterestMortgageVB = vb.totalInterestMortgageVB
          /\ vbRet'.totalInterestHelocVB = vb.totalInterestHelocVB]_vars
  /\ [][(InVelocityLoop /\ pc # "velocityLoop") =>
          pc' \in {"velocityLoop", "velocityHeloc", "velocityRepeat",
                   "thrown"}]_vars

\* helocPaymentPerMonth is above a month's interest on a whole chunk
PaysChunkInterest ==
  /\ IsPos(args.helocChunkAmount)
  /\ FGt(args.helocPaymentPerMonth,
         FMul(args.helocChunkAmount, FDiv(args.helocRateAnnual, FInt(12))))

\* C26: when helocPaymentPerMonth is strictly above the monthly interest on
\* a full chunk, the line balance never exceeds helocChunkAmount and the
\* negative-amortization failure is reached in no month, with or without
\* repeat chunks
LineWithinChunk ==
  PaysChunkInterest =>
    /\ outcome # "thrown"
    /\ pc # "thrown"
    /\ hook.error = <<>>
    /\ InVelocityLoop =>
         /\ FLe(vb.helocBal, args.helocChunkAmount)
         /\ FLt(FMul(vb.helocBal, vb.rH), args.helocPaymentPerMonth)
         /\ ~(FLe(args.helocPaymentPerMonth, FMul(vb.helocBal, vb.rH))
              /\ FGt(vb.helocBal, Cent))

\* a later month stands before its line step with a fresh full chunk on an
\* interest-bearing line whose payment covers the chunk's interest
FullChunkCovered ==
  /\ call = "simulateVelocityBanking"
  /\ pc = "velocityHeloc"
  /\ PaysChunkInterest
  /\ args.repeatChunks
  /\ IsPos(vb.rH)
  /\ vb.monthsVB > 1
  /\ vb.helocBal = args.helocChunkAmount

(***************************************************************************)
(* Properties of the reused payment                                        *)
(***************************************************************************)
\* simulateAllStrategies runs, directly or from the hook
InAllStrategies ==
  call \in {"simulateAllStrategies", "useVelocityBankingSimulation"}

\* a valid loan, a chunk above 0.01 and no line payment
NoLinePayment ==
  /\ InAllStrategies
  /\ ~Degenerate(args.mortgageBalance, args.mortgageTermMonths)
  /\ FGt(args.helocChunkAmount, Cent)
  /\ args.helocPaymentPerMonth = Zero

\* the call fails in month 1 and builds no report
FailsInFirstMonth ==
  /\ report = NoReport
  /\ hook.result = <<>>
  /\ pc \notin {"allCompare", "allFinish", "simulateInvestmentStrategy",
                 "investmentLoop", "hookReturn"}
  /\ (pc = "done" /\ call = "simulateAllStrategies") => outcome = "thrown"
  /\ (InVelocityLoop \/ pc = "thrown") => vb.monthsVB <= 1
  /\ pc = "velocityHeloc" =>
       (vb.monthsVB = 1 /\ NegativeAmortization(vb))
  /\ pc = "velocityLoop" => (vb.monthsVB = 0 /\ VelocityCond(vb))

\* helocPaymentPerMonth is the extra payment and the contribution
PaymentReused ==
  InAllStrategies =>
    /\ pc = "extraLoop" => ex.extraPaymentPerMonth = args.helocPaymentPerMonth
    /\ pc = "investmentLoop" =>
         inv.extraPaymentPerMonth = args.helocPaymentPerMonth
    /\ (pc = "done" /\ report # NoReport
        /\ ~Degenerate(args.mortgageBalance, args.mortgageTermMonths)) =>
         report.extraPayment.monthlyPayment =
           FAdd(report.baseline.monthlyPayment, args.helocPaymentPerMonth)

\* C27 as stated: helocPaymentPerMonth is reused as extra payment, line
\* payment and contribution, so a valid loan with helocChunkAmount > 0.01
\* and helocPaymentPerMonth = 0 always fails in month 1 and never returns a
\* report
NoPaymentAlwaysFails ==
  /\ PaymentReused
  /\ NoLinePayment => FailsInFirstMonth

\* C27: helocPaymentPerMonth is reused as extra payment, line payment and
\* contribution, so a valid loan with a principal above 0.01, helocChunkAmount
\* > 0.01 and helocPaymentPerMonth = 0 fails in month 1 and never returns a
\* report; with a principal of at most 0.01 the chunk drawn is the principal,
\* which is not above the threshold, and month 1 does not fail
NoPaymentFailsAboveCent ==
  /\ PaymentReused
  /\ (NoLinePayment /\ FGt(args.mortgageBalance, Cent)) => FailsInFirstMonth
  /\ (NoLinePayment /\ FLe(args.mortgageBalance, Cent)
      /\ pc = "velocityHeloc" /\ vb.monthsVB = 1) =>
       /\ vb.helocBal = args.mortgageBalance
       /\ ~NegativeAmortization(vb)

\* a report for a loan of at most 0.01 with a chunk above 0.01 and no line
\* payment, in which the extra-payment strategy equals the baseline
PennyLoanReported ==
  /\ call = "simulateAllStrategies"
  /\ NoLinePayment
  /\ pc = "done"
  /\ outcome = "returned"
  /\ report # NoReport
  /\ report.extraPayment.totalMonths = report.baseline.totalMonths
  /\ report.extraPayment.totalInterest = report.baseline.totalInterest
  /\ report.velocity.totalMonths = args.maxMonthsSimulated
====
